---- MODULE Spec2Model ----
(***************************************************************************)
(* BenchApp -> Google Calendar sync (Google Apps Script).                  *)
(*                                                                         *)
(* Two deployed scripts are modelled, selected by the variable version:    *)
(*   "stable" : the STABLE UID FIX script  (src/unnamed/part_000:1-354)    *)
(*   "clean"  : the CLEAN VERSION script   (src/unnamed/part_001:380-872)  *)
(*                                                                         *)
(* Strings are sequences of UTF-16 char codes, so that trim, toLowerCase,  *)
(* String.replace, the regular expressions and the rolling hash are        *)
(* computed as the code computes them.  A Date is a record                 *)
(* [d |-> days since the epoch, ms |-> milliseconds within the day]: the   *)
(* epoch-millisecond value d * 86400000 + ms does not fit a 32-bit         *)
(* integer, and all arithmetic on it is done on the two parts.             *)
(***************************************************************************)
EXTENDS Integers, Sequences, FiniteSets, TLC

VARIABLES
    version,    \* which script is deployed: "stable" or "clean"
    feed,       \* the BenchApp ICS feed: a sequence of VEVENT blocks
    calendar,   \* the family calendar: a set of CalendarEvent records
    runs,       \* number of syncHockeyCalendar runs so far
    prev,       \* summary of the run before the last one
    last,       \* record of the last syncHockeyCalendar run
    fresh,      \* TRUE while the calendar started without managed events and
                \* every run so far fetched the same, unchanged feed
    lastSyncTime,   \* script property lastSyncTime: the run that set it, 0 if unset
    inflight,   \* per execution of syncHockeyCalendar that may overlap another:
                \* what it has read so far and whether it has finished
    triggers,   \* ScriptApp.getProjectTriggers(): the project's time-based triggers
    clock,      \* hours that have passed
    fired,      \* the calls of setupTriggers and the firings of triggers, in order
    probe,      \* one target handle and one source event, and the calls of
                \* createEvent, updateEvent and needsUpdate made on them
    hashing,    \* the for loop of createStableUID: the word it started from,
                \* the char codes consumed so far and the hash variable
    twin,       \* two executions of the reconciler on the same source list and
                \* the same calendar snapshot: when each ran and what it produced
    cleanup     \* the executions of cleanupDuplicateEvents so far

schedVars == <<triggers, clock, fired>>

syncVars == <<feed, calendar, runs, prev, last, fresh, lastSyncTime, inflight>>

vars == <<version, feed, calendar, runs, prev, last, fresh, lastSyncTime, inflight, schedVars,
          probe, hashing, twin, cleanup>>

-----------------------------------------------------------------------------
(* Bounds of the model *)

MaxFeedLen == 2     \* VEVENT blocks in the feed
MaxRuns == 2        \* sync runs in one behaviour
MaxFailAt == 2      \* the mutating call of a run that may throw: the first .. this one
MaxHours == 12      \* hours the trigger schedule is followed
MaxSetups == 2      \* calls of setupTriggers
MaxProbes == 3      \* calls of createEvent, updateEvent and needsUpdate on one pair

-----------------------------------------------------------------------------
(* Strings *)

S_UidMarker == <<72, 111, 99, 107, 101, 121, 45, 85, 73, 68, 58>>            \* "Hockey-UID:"
S_UidMarkerSp == <<72, 111, 99, 107, 101, 121, 45, 85, 73, 68, 58, 32>>      \* "Hockey-UID: "
S_NlNlUidMarker == <<10, 10, 72, 111, 99, 107, 101, 121, 45, 85, 73, 68, 58>> \* "\n\nHockey-UID:"
S_NlNl == <<10, 10>>                                                         \* "\n\n"
S_StablePrefix == <<98, 101, 110, 99, 104, 97, 112, 112, 45, 115, 116, 97, 98, 108, 101, 45>> \* "benchapp-stable-"
S_TwoPow31 == <<50, 49, 52, 55, 52, 56, 51, 54, 52, 56>>                      \* "2147483648"
S_Bar == <<124>>                                                             \* "|"

\* CONFIG.EVENT_PREFIX: '[Hockey] '
EVENT_PREFIX == <<91, 72, 111, 99, 107, 101, 121, 93, 32>>

\* White space of String.prototype.trim and of the regular expression \s
IsSpace(c) == c \in {9, 10, 11, 12, 13, 32}

\* Line terminators: what the regular expression . does not match
IsLineTerminator(c) == c \in {10, 13}

RECURSIVE TrimLeft(_)
TrimLeft(s) ==
    IF s = <<>> THEN <<>>
    ELSE IF IsSpace(Head(s)) THEN TrimLeft(Tail(s)) ELSE s

RECURSIVE TrimRight(_)
TrimRight(s) ==
    IF s = <<>> THEN <<>>
    ELSE IF IsSpace(s[Len(s)]) THEN TrimRight(SubSeq(s, 1, Len(s) - 1)) ELSE s

\* String.prototype.trim
Trim(s) == TrimRight(TrimLeft(s))

\* String.prototype.toLowerCase on the ASCII range
ToLowerCase(s) == [i \in 1..Len(s) |-> IF s[i] \in 65..90 THEN s[i] + 32 ELSE s[i]]

\* s.startsWith(p)
StartsWith(s, p) == Len(p) <= Len(s) /\ SubSeq(s, 1, Len(p)) = p

\* s.indexOf(p), 1-based; 0 when p does not occur
IndexOf(s, p) ==
    LET hits == {i \in 1..(Len(s) - Len(p) + 1) : SubSeq(s, i, i + Len(p) - 1) = p}
    IN IF hits = {} THEN 0 ELSE CHOOSE i \in hits : \A j \in hits : i <= j

\* s.includes(p)
Includes(s, p) == IndexOf(s, p) > 0

\* s.replace(p, r) with a string pattern: the first occurrence only
ReplaceFirst(s, p, r) ==
    LET i == IndexOf(s, p)
    IN IF i = 0 THEN s
       ELSE SubSeq(s, 1, i - 1) \o r \o SubSeq(s, i + Len(p), Len(s))

\* s.replace(/p/g, r) for a literal pattern p: every occurrence, left to right
RECURSIVE ReplaceAll(_, _, _)
ReplaceAll(s, p, r) ==
    LET i == IndexOf(s, p)
    IN IF i = 0 THEN s
       ELSE SubSeq(s, 1, i - 1) \o r \o ReplaceAll(SubSeq(s, i + Len(p), Len(s)), p, r)

\* Number.prototype.toString of a natural number: its decimal digits
RECURSIVE Digits(_)
Digits(n) == IF n < 10 THEN <<48 + n>> ELSE Digits(n \div 10) \o <<48 + (n % 10)>>

\* n as exactly five decimal digits (n < 100000)
Pad5(n) ==
    <<48 + (n \div 10000), 48 + ((n \div 1000) % 10), 48 + ((n \div 100) % 10),
      48 + ((n \div 10) % 10), 48 + (n % 10)>>

-----------------------------------------------------------------------------
(* Dates *)

MsPerDay == 86400000
TwoHoursMs == 7200000

\* A missing Date (null / undefined)
NoTime == [d |-> 0, ms |-> 0]

\* new Date(t.getTime() + ms) for 0 <= ms < MsPerDay
PlusMs(t, ms) ==
    IF t.ms + ms >= MsPerDay THEN [d |-> t.d + 1, ms |-> t.ms + ms - MsPerDay]
    ELSE [d |-> t.d, ms |-> t.ms + ms]

\* new Date(t.getTime() - ms) for 0 <= ms < MsPerDay
MinusMs(t, ms) ==
    IF t.ms - ms < 0 THEN [d |-> t.d - 1, ms |-> t.ms - ms + MsPerDay]
    ELSE [d |-> t.d, ms |-> t.ms - ms]

\* new Date(t.getTime() + days * 24 * 60 * 60 * 1000), days possibly negative
PlusDays(t, days) == [d |-> t.d + days, ms |-> t.ms]

\* a.getTime() < b.getTime()
TimeLess(a, b) == a.d < b.d \/ (a.d = b.d /\ a.ms < b.ms)

\* Math.abs(a.getTime() - b.getTime()) > threshold, for threshold < MsPerDay:
\* two dates two or more days apart differ by more than a day
AbsDiffExceeds(a, b, threshold) ==
    LET dd == a.d - b.d
        diff == dd * MsPerDay + (a.ms - b.ms)
    IN IF dd >= 2 \/ dd <= -2 THEN TRUE
       ELSE (IF diff < 0 THEN -diff ELSE diff) > threshold

\* t.getTime().toString(): the decimal digits of d * 86400000 + ms, computed
\* as (d * 864 + ms div 100000) followed by the five digits of ms mod 100000
TimeString(t) == Digits(t.d * 864 + (t.ms \div 100000)) \o Pad5(t.ms % 100000)

-----------------------------------------------------------------------------
(* The VEVENT blocks of the model *)

S_Aa == <<65, 97>>                      \* "Aa"
S_BB == <<66, 66>>                      \* "BB": "Aa" and "BB" have the same rolling hash
S_Cc == <<67, 99>>                      \* "Cc"
S_Rk == <<82, 107>>                     \* "Rk"
S_rk == <<114, 107>>                    \* "rk"
S_d == <<100>>                          \* "d"
S_x == <<120>>                          \* "x"
S_Old1 == <<111, 108, 100, 45, 49>>     \* "old-1"
S_Old2 == <<111, 108, 100, 45, 50>>     \* "old-2"

\* new Date() of every run
Now == [d |-> 19676, ms |-> 0]

T0 == [d |-> 19677, ms |-> 64800000]    \* tomorrow 18:00
T1 == PlusMs(T0, 3600000)               \* tomorrow 19:00
T2 == PlusMs(T1, 3600000)               \* tomorrow 20:00
TOld == PlusDays(T0, -11)               \* ten days ago: before the lookback window

Block(summary, dtstart, dtend, location, description) ==
    [summary |-> summary, dtstart |-> dtstart, dtend |-> dtend,
     location |-> location, description |-> description]

B_Game == Block(S_Aa, T0, T2, S_Rk, S_d)            \* every field present
B_Bare == Block(S_BB, T0, NoTime, S_Rk, <<>>)       \* no DTEND, no DESCRIPTION
B_Late == Block(S_Cc, T1, NoTime, <<>>, <<>>)       \* no LOCATION either
B_Past == Block(S_Aa, TOld, NoTime, S_Rk, S_d)      \* a game played ten days ago
B_Note == Block(S_Aa, T0, T2, S_Rk, S_UidMarkerSp \o S_x)  \* its notes quote a marker

Blocks == {B_Game, B_Bare, B_Late, B_Past, B_Note}

-----------------------------------------------------------------------------
(* Identity: createStableUID *)

\* hash << 5 on the 32-bit word h, kept as <<high 16 bits, low 16 bits>>:
\* the bits shifted out at the top are lost
ShiftLeft5(h) ==
    LET x == h[2] * 32
    IN <<(h[1] * 32 + (x \div 65536)) % 65536, x % 65536>>

\* A loop body that shifts by four bits
HashStepShiftingFour(h, c) ==
    LET s == <<(h[1] * 16 + ((h[2] * 16) \div 65536)) % 65536, (h[2] * 16) % 65536>>
        x == s[2] - h[2] + c
    IN <<(s[1] - h[1] + (x \div 65536)) % 65536, x % 65536>>

\* One round of the loop body: hash = ((hash << 5) - hash) + char; hash = hash & hash.
\* The subtraction and the addition are exact (the values stay far below 2^53),
\* and hash & hash keeps the sum's low 32 bits: the low half's borrow or carry
\* goes into the high half, the high half's is lost.
HashStep(h, c) ==
    LET s == ShiftLeft5(h)
        x == s[2] - h[2] + c
    IN <<(s[1] - h[1] + (x \div 65536)) % 65536, x % 65536>>

RECURSIVE HashFrom(_, _, _)
\* The rounds from index i on. The test h = <<>> never succeeds: it has the
\* word of a round evaluated before the next round starts.
HashFrom(h, s, i) ==
    IF i > Len(s) \/ h = <<>> THEN h ELSE HashFrom(HashStep(h, s[i]), s, i + 1)

\* The for loop of createStableUID over stableString
StringHash(s) == HashFrom(<<0, 0>>, s, 1)

\* Math.abs(hash).toString() of the signed 32-bit word h
AbsHashString(h) ==
    IF h[1] < 32768 THEN Digits(h[1] * 65536 + h[2])
    ELSE LET lo == (65536 - h[2]) % 65536
             hi == 65536 - h[1] - (IF h[2] = 0 THEN 0 ELSE 1)
         IN IF hi = 32768 THEN S_TwoPow31 ELSE Digits(hi * 65536 + lo)

\* `${title}|${startTime}|${location}` of createStableUID
StableString(event) ==
    LET title == Trim(event.title)
        startTime == IF event.startTime # NoTime THEN TimeString(event.startTime) ELSE <<>>
        location == Trim(event.location)
    IN title \o S_Bar \o startTime \o S_Bar \o location

\* The hashes of the stable strings of the model's blocks, at 18:00 and at 19:00:
\* a table evaluated once, so that a run does not hash the same string again
HashTable ==
    LET known == {StableString([title |-> b.summary, startTime |-> t, location |-> b.location]) :
                      b \in Blocks, t \in {T0, T1, TOld}}
    IN [s \in known |-> AbsHashString(StringHash(s))]

\* An identity derived from every field of the event, the description included
createUIDFromAllFields(event) ==
    S_StablePrefix \o AbsHashString(StringHash(StableString(event) \o S_Bar \o event.description))

createStableUID(event) ==
    LET stableString == StableString(event)
    IN S_StablePrefix \o (IF stableString \in DOMAIN HashTable THEN HashTable[stableString]
                          ELSE AbsHashString(StringHash(stableString)))

-----------------------------------------------------------------------------
(* The feed: fetchHockeyEvents, parseICSData, parseEventBlock *)

S_BsN == <<92, 110>>      \* backslash n
S_BsComma == <<92, 44>>   \* backslash comma
S_BsBs == <<92, 92>>      \* backslash backslash
S_BsSemi == <<92, 59>>    \* backslash semicolon

\* cleanLocationString (clean script only)
cleanLocationString(location) ==
    IF location = <<>> THEN <<>>
    ELSE Trim(ReplaceAll(ReplaceAll(ReplaceAll(ReplaceAll(location,
            S_BsN, <<10>>), S_BsComma, <<44>>), S_BsBs, <<92>>), S_BsSemi, <<59>>))

\* A parser that returns every block's event, whatever it lacks
parseEventBlockUnchecked(v, block) ==
    LET event == [title |-> Trim(block.summary), startTime |-> block.dtstart,
                  endTime |-> block.dtend, location |-> Trim(block.location),
                  description |-> Trim(block.description)]
    IN <<event @@ [uid |-> createStableUID(event)]>>

\* parseEventBlock: the parsed event as a sequence of length 1, or <<>> for null.
\* A block is the record of its SUMMARY, DTSTART, DTEND, LOCATION and DESCRIPTION
\* values; a missing line is the empty string (NoTime for a date).
parseEventBlock(v, block) ==
    LET title == Trim(block.summary)
        rawLocation == Trim(block.location)
        event == [title       |-> title,
                  startTime   |-> block.dtstart,
                  endTime     |-> block.dtend,
                  location    |-> IF v = "clean" THEN cleanLocationString(rawLocation)
                                  ELSE rawLocation,
                  description |-> Trim(block.description)]
    IN IF title # <<>> /\ block.dtstart # NoTime
       THEN <<[event EXCEPT !.title = title] @@ [uid |-> createStableUID(event)]>>
       ELSE <<>>

RECURSIVE ParseBlocks(_, _, _)
ParseBlocks(v, blocks, i) ==
    IF i > Len(blocks) THEN <<>>
    ELSE parseEventBlock(v, blocks[i]) \o ParseBlocks(v, blocks, i + 1)

\* parseICSData: the events of the blocks that parse, in feed order
parseICSData(v, icsData) == ParseBlocks(v, icsData, 1)

\* fetchHockeyEvents: a fetch that throws is caught and yields []
fetchHockeyEvents(v, fetchOk, icsData) ==
    IF fetchOk THEN parseICSData(v, icsData) ELSE <<>>

-----------------------------------------------------------------------------
(* The identity marker: extractUIDFromDescription *)

RECURSIVE TakeNonSpace(_)
TakeNonSpace(s) ==
    IF s = <<>> \/ IsSpace(Head(s)) THEN <<>>
    ELSE <<Head(s)>> \o TakeNonSpace(Tail(s))

\* description.match(/Hockey-UID:\s*([^\n\r\s]+)/)[1].trim(), or <<>> for null.
\* The stable script then tries /Hockey-UID:\s*([^\n\r]+)/, which can only capture
\* white space once the first pattern has failed: its trimmed result is '' and
\* every caller treats '' as null.
extractUIDFromDescription(description) ==
    LET i == IndexOf(description, S_UidMarker)
    IN IF i = 0 THEN <<>>
       ELSE TakeNonSpace(TrimLeft(SubSeq(description, i + Len(S_UidMarker), Len(description))))

-----------------------------------------------------------------------------
(* needsUpdate, createEvent, updateEvent *)

NoLineTerminator(s) == \A i \in 1..Len(s) : ~IsLineTerminator(s[i])

\* desc.replace(/\n\nHockey-UID:.*$/, ''): . matches no line terminator and $
\* (no m flag) only the end of the string
StripTrailingMarker(desc) ==
    LET n == Len(S_NlNlUidMarker)
        hits == {i \in 1..(Len(desc) - n + 1) :
                    /\ SubSeq(desc, i, i + n - 1) = S_NlNlUidMarker
                    /\ NoLineTerminator(SubSeq(desc, i + n, Len(desc)))}
    IN IF hits = {} THEN desc
       ELSE SubSeq(desc, 1, (CHOOSE i \in hits : \A j \in hits : i <= j) - 1)

\* desc.replace(/^Hockey-UID:.*$/, '')
StripLeadingMarker(desc) ==
    IF StartsWith(desc, S_UidMarker) /\ NoLineTerminator(desc) THEN <<>> ELSE desc

\* An end time one hour after the start when the source event has none
ExpectedEndTimeAfterOneHour(hockeyEvent) ==
    IF hockeyEvent.endTime # NoTime THEN hockeyEvent.endTime
    ELSE PlusMs(hockeyEvent.startTime, 3600000)

\* hockeyEvent.endTime || new Date(hockeyEvent.startTime.getTime() + 2 * 60 * 60 * 1000)
ExpectedEndTime(hockeyEvent) ==
    IF hockeyEvent.endTime # NoTime THEN hockeyEvent.endTime
    ELSE PlusMs(hockeyEvent.startTime, TwoHoursMs)

ToleranceStable == 60000
ToleranceClean == 300000

needsUpdateStable(existingEvent, hockeyEvent) ==
    LET expectedTitle == EVENT_PREFIX \o hockeyEvent.title
        expectedEndTime == ExpectedEndTime(hockeyEvent)
        titleChanged == existingEvent.title # expectedTitle
        startChanged == AbsDiffExceeds(existingEvent.startTime, hockeyEvent.startTime, ToleranceStable)
        endChanged == AbsDiffExceeds(existingEvent.endTime, expectedEndTime, ToleranceStable)
        locationChanged == Trim(existingEvent.location) # Trim(hockeyEvent.location)
        existingContentDesc == Trim(StripTrailingMarker(existingEvent.description))
        newContentDesc == Trim(hockeyEvent.description)
        descriptionChanged == existingContentDesc # newContentDesc
    IN titleChanged \/ startChanged \/ endChanged \/ locationChanged \/ descriptionChanged

needsUpdateClean(existingEvent, hockeyEvent) ==
    LET expectedTitle == EVENT_PREFIX \o hockeyEvent.title
        expectedEndTime == ExpectedEndTime(hockeyEvent)
        titleChanged == existingEvent.title # expectedTitle
        startChanged == AbsDiffExceeds(existingEvent.startTime, hockeyEvent.startTime, ToleranceClean)
        endChanged == AbsDiffExceeds(existingEvent.endTime, expectedEndTime, ToleranceClean)
        existingLocation == Trim(ToLowerCase(existingEvent.location))
        newLocation == Trim(ToLowerCase(hockeyEvent.location))
        locationChanged == existingLocation # newLocation
        existingContentDesc ==
            Trim(StripLeadingMarker(StripTrailingMarker(existingEvent.description)))
        newContentDesc == Trim(hockeyEvent.description)
        descriptionChanged == existingContentDesc # newContentDesc
    IN titleChanged \/ startChanged \/ endChanged \/ locationChanged \/ descriptionChanged

needsUpdate(v, existingEvent, hockeyEvent) ==
    IF v = "clean" THEN needsUpdateClean(existingEvent, hockeyEvent)
    ELSE needsUpdateStable(existingEvent, hockeyEvent)

\* A needsUpdate that brings the target's location in line while it compares
QueryNeedsUpdateAligning(v, existingEvent, hockeyEvent) ==
    [answer |-> needsUpdate(v, existingEvent, hockeyEvent),
     existingEvent |-> [existingEvent EXCEPT !.location = hockeyEvent.location],
     hockeyEvent |-> hockeyEvent,
     calls |-> <<[op |-> "update", id |-> existingEvent.id]>>]

\* What a call of needsUpdate leaves behind: its answer, the target and the
\* source event after the call, and the mutating calendar calls it made. The
\* function reads the target through getTitle, getStartTime, getEndTime,
\* getLocation and getDescription and calls no setter.
QueryNeedsUpdate(v, existingEvent, hockeyEvent) ==
    [answer |-> needsUpdate(v, existingEvent, hockeyEvent),
     existingEvent |-> existingEvent, hockeyEvent |-> hockeyEvent, calls |-> <<>>]

\* A description that also carries the time of the write
MarkedDescriptionAtSyncTime(hockeyEvent) ==
    Trim(hockeyEvent.description)
        \o (IF hockeyEvent.description # <<>> THEN S_NlNl ELSE <<>>)
        \o S_UidMarkerSp \o hockeyEvent.uid \o <<32>> \o Digits(twin.time)

\* The description createEvent and updateEvent store
MarkedDescription(hockeyEvent) ==
    Trim(hockeyEvent.description)
        \o (IF hockeyEvent.description # <<>> THEN S_NlNl ELSE <<>>)
        \o S_UidMarkerSp \o hockeyEvent.uid

\* calendar.createEvent(title, startTime, endTime, {description, location})
createEvent(id, hockeyEvent) ==
    [id          |-> id,
     title       |-> EVENT_PREFIX \o hockeyEvent.title,
     startTime   |-> hockeyEvent.startTime,
     endTime     |-> ExpectedEndTime(hockeyEvent),
     description |-> MarkedDescription(hockeyEvent),
     location    |-> hockeyEvent.location]

\* setTitle, setTime, setDescription, setLocation on existingEvent
updateEvent(existingEvent, hockeyEvent) ==
    [existingEvent EXCEPT
        !.title       = EVENT_PREFIX \o hockeyEvent.title,
        !.startTime   = hockeyEvent.startTime,
        !.endTime     = ExpectedEndTime(hockeyEvent),
        !.description = MarkedDescription(hockeyEvent),
        !.location    = hockeyEvent.location]

-----------------------------------------------------------------------------
(* The family calendar: getExistingHockeyEvents *)

DAYS_LOOKBACK == 7
DAYS_LOOKAHEAD == 90

\* The event of calendar cal with handle id
Ev(cal, id) == CHOOSE e \in cal : e.id = id

\* The handle calendar.createEvent gives a new event
FreshId(cal) ==
    IF cal = {} THEN 1
    ELSE 1 + (CHOOSE m \in {e.id : e \in cal} : \A e \in cal : e.id <= m)

\* The handles of the events of set es by start time, then by handle
RECURSIVE ByStartTime(_)
ByStartTime(es) ==
    IF es = {} THEN <<>>
    ELSE LET first == CHOOSE e \in es : \A f \in es :
                          \/ TimeLess(e.startTime, f.startTime)
                          \/ (e.startTime = f.startTime /\ e.id <= f.id)
         IN <<first.id>> \o ByStartTime(es \ {first})

\* A filter on the marker alone, whatever the title
HasMarker(event) ==
    /\ event.description # <<>>
    /\ Includes(event.description, S_UidMarker)

\* The filter of getExistingHockeyEvents
IsManaged(event) ==
    /\ StartsWith(event.title, EVENT_PREFIX)
    /\ event.description # <<>>
    /\ Includes(event.description, S_UidMarker)

\* calendar.getEvents(startDate, endDate): the events that overlap the window
InWindow(event, now) ==
    /\ TimeLess(event.startTime, PlusDays(now, DAYS_LOOKAHEAD))
    /\ TimeLess(PlusDays(now, -DAYS_LOOKBACK), event.endTime)

\* getExistingHockeyEvents: the handles of the managed events of the window
getExistingHockeyEvents(cal, now) ==
    ByStartTime({e \in cal : InWindow(e, now) /\ IsManaged(e)})

-----------------------------------------------------------------------------
(* The reconciler: processEventsWithStableUIDs (stable), processEvents (clean) *)

\* `${title}|${startTime.getTime()}|${location || ''}` of a source event
SourceContentKey(hockeyEvent) ==
    hockeyEvent.title \o S_Bar \o TimeString(hockeyEvent.startTime) \o S_Bar \o hockeyEvent.location

\* The key of a calendar event with its title as stored
TargetContentKeyOfStoredTitle(event) ==
    event.title \o S_Bar \o TimeString(event.startTime) \o S_Bar \o event.location

\* The same key of a calendar event, its title without the first EVENT_PREFIX
TargetContentKey(event) ==
    ReplaceFirst(event.title, EVENT_PREFIX, <<>>) \o S_Bar \o TimeString(event.startTime)
        \o S_Bar \o event.location

\* existingEventMap.get(uid): the last existing event whose stored UID is uid
\* (0 for undefined); the map is built from the events as they are at run start
existingEventMapGet(cal0, existing, uid) ==
    LET hits == {i \in 1..Len(existing) :
                    extractUIDFromDescription(Ev(cal0, existing[i]).description) = uid}
    IN IF uid = <<>> \/ hits = {} THEN 0
       ELSE existing[CHOOSE i \in hits : \A j \in hits : j <= i]

\* existingByContent.get(key): the last existing event with that content key
existingByContentGet(cal0, existing, key) ==
    LET hits == {i \in 1..Len(existing) : TargetContentKey(Ev(cal0, existing[i])) = key}
    IN IF hits = {} THEN 0
       ELSE existing[CHOOSE i \in hits : \A j \in hits : j <= i]

\* hockeyEventMap.has(uid)
hockeyEventMapHas(hockeyEvents, uid) ==
    \E i \in 1..Len(hockeyEvents) : hockeyEvents[i].uid = uid

\* hockeyEventMap.values(): for every uid the last source event that carries it
hockeyEventMapValues(hockeyEvents) ==
    {hockeyEvents[i] : i \in {k \in 1..Len(hockeyEvents) :
        \A j \in (k + 1)..Len(hockeyEvents) : hockeyEvents[j].uid # hockeyEvents[k].uid}}

NoResults == [added |-> 0, updated |-> 0, removed |-> 0, unchanged |-> 0, migrated |-> 0]

Call(op, id) == [op |-> op, id |-> id]

\* Utilities.sleep(300) after a mutation: the clean script only
Sleep(v) == IF v = "clean" THEN <<Call("sleep", 0)>> ELSE <<>>

\* A lookup by UID alone, in both scripts
LookupTargetByUidOnly(v, cal0, existing, hockeyEvent) ==
    [id |-> existingEventMapGet(cal0, existing, hockeyEvent.uid), isMigration |-> FALSE]

\* The lookup of the source loop: by UID, then (stable script) by content key
LookupTarget(v, cal0, existing, hockeyEvent) ==
    LET byUid == existingEventMapGet(cal0, existing, hockeyEvent.uid)
        byContent == IF v = "stable" /\ byUid = 0
                     THEN existingByContentGet(cal0, existing, SourceContentKey(hockeyEvent))
                     ELSE 0
    IN [id |-> IF byUid # 0 THEN byUid ELSE byContent,
        isMigration |-> byUid = 0 /\ byContent # 0]

\* A mutating calendar call (createEvent, setTitle..., deleteEvent) may throw:
\* acc.failAt counts down to the call that does, 0 when none does
Throws(acc) == acc.failAt = 1

Tick(failAt) == IF failAt > 1 THEN failAt - 1 ELSE 0

\* One round of hockeyEvents.forEach: acc holds the calendar as mutated so far,
\* the counters, the calendar calls issued and one step record per source event.
\* An exception leaves the loop: no later round runs.
SourceStep(v, cal0, existing, hockeyEvent, acc) ==
    LET found == LookupTarget(v, cal0, existing, hockeyEvent)
    IN IF acc.failed THEN acc
       ELSE IF found.id # 0
       THEN LET existingEvent == Ev(acc.cal, found.id)
                need == needsUpdate(v, existingEvent, hockeyEvent)
                step == [target |-> found.id, seen |-> <<existingEvent>>,
                         isMigration |-> found.isMigration, need |-> need]
            IN IF found.isMigration \/ need
               THEN IF Throws(acc) THEN [acc EXCEPT !.failed = TRUE]
                    ELSE [cal |-> (acc.cal \ {existingEvent})
                                      \cup {updateEvent(existingEvent, hockeyEvent)},
                          results |-> IF found.isMigration
                                      THEN [acc.results EXCEPT !.migrated = acc.results.migrated + 1]
                                      ELSE [acc.results EXCEPT !.updated = acc.results.updated + 1],
                          calls |-> acc.calls \o <<Call("update", found.id)>> \o Sleep(v),
                          steps |-> Append(acc.steps, step @@
                                 [class |-> IF found.isMigration THEN "migrated" ELSE "updated"]),
                          failAt |-> Tick(acc.failAt), failed |-> FALSE]
               ELSE [cal |-> acc.cal,
                     results |-> [acc.results EXCEPT !.unchanged = acc.results.unchanged + 1],
                     calls |-> acc.calls,
                     steps |-> Append(acc.steps, step @@ [class |-> "unchanged"]),
                     failAt |-> acc.failAt, failed |-> FALSE]
       ELSE LET id == FreshId(acc.cal)
            IN IF Throws(acc) THEN [acc EXCEPT !.failed = TRUE]
               ELSE [cal |-> acc.cal \cup {createEvent(id, hockeyEvent)},
                     results |-> [acc.results EXCEPT !.added = acc.results.added + 1],
                     calls |-> acc.calls \o <<Call("create", id)>> \o Sleep(v),
                     steps |-> Append(acc.steps,
                            [target |-> id, seen |-> <<>>, isMigration |-> FALSE,
                             need |-> FALSE, class |-> "added"]),
                     failAt |-> Tick(acc.failAt), failed |-> FALSE]

\* A source loop over hockeyEventMap.values(): one round per identity
RECURSIVE SourceLoopOverMap(_, _, _, _, _, _)
SourceLoopOverMap(v, cal0, existing, hockeyEvents, i, acc) ==
    IF i > Len(hockeyEvents) THEN acc
    ELSE SourceLoopOverMap(v, cal0, existing, hockeyEvents, i + 1,
             IF hockeyEvents[i] \in hockeyEventMapValues(hockeyEvents)
             THEN SourceStep(v, cal0, existing, hockeyEvents[i], acc) ELSE acc)

RECURSIVE SourceLoop(_, _, _, _, _, _)
SourceLoop(v, cal0, existing, hockeyEvents, i, acc) ==
    IF i > Len(hockeyEvents) THEN acc
    ELSE SourceLoop(v, cal0, existing, hockeyEvents, i + 1,
                    SourceStep(v, cal0, existing, hockeyEvents[i], acc))

\* The condition under which the removal loop deletes existingEvent
ShouldRemove(v, hockeyEvents, existingEvent) ==
    LET storedUID == extractUIDFromDescription(existingEvent.description)
        contentKey == TargetContentKey(existingEvent)
        existsByUID == storedUID # <<>> /\ hockeyEventMapHas(hockeyEvents, storedUID)
        existsByContent == \E hockeyEvent \in hockeyEventMapValues(hockeyEvents) :
                               SourceContentKey(hockeyEvent) = contentKey
    IN IF v = "stable" THEN ~existsByUID /\ ~existsByContent
       ELSE storedUID # <<>> /\ ~hockeyEventMapHas(hockeyEvents, storedUID)

\* One round of existingEvents.forEach of the removal loop
RemoveStep(v, hockeyEvents, id, acc) ==
    LET existingEvent == Ev(acc.cal, id)
    IN IF acc.failed THEN acc
       ELSE IF ShouldRemove(v, hockeyEvents, existingEvent)
       THEN IF Throws(acc) THEN [acc EXCEPT !.failed = TRUE]
            ELSE [cal |-> acc.cal \ {existingEvent},
                  results |-> [acc.results EXCEPT !.removed = acc.results.removed + 1],
                  calls |-> acc.calls \o <<Call("delete", id)>> \o Sleep(v),
                  steps |-> acc.steps,
                  failAt |-> Tick(acc.failAt), failed |-> FALSE]
       ELSE acc

RECURSIVE RemoveLoop(_, _, _, _, _)
RemoveLoop(v, hockeyEvents, existing, j, acc) ==
    IF j > Len(existing) THEN acc
    ELSE RemoveLoop(v, hockeyEvents, existing, j + 1,
                    RemoveStep(v, hockeyEvents, existing[j], acc))

\* A reconciler that removes before it adds and updates
processEventsRemovingFirst(v, cal0, hockeyEvents, existing, failAt) ==
    LET start == [cal |-> cal0, results |-> NoResults, calls |-> <<>>, steps |-> <<>>,
                  failAt |-> failAt, failed |-> FALSE]
        afterRemove == RemoveLoop(v, hockeyEvents, existing, 1, start)
    IN SourceLoop(v, cal0, existing, hockeyEvents, 1, afterRemove)

\* processEventsWithStableUIDs / processEvents on calendar cal0; the failAt-th
\* mutating call throws (0: none does)
processEvents(v, cal0, hockeyEvents, existing, failAt) ==
    LET start == [cal |-> cal0, results |-> NoResults, calls |-> <<>>, steps |-> <<>>,
                  failAt |-> failAt, failed |-> FALSE]
        afterSource == SourceLoop(v, cal0, existing, hockeyEvents, 1, start)
    IN RemoveLoop(v, hockeyEvents, existing, 1, afterSource)

\* The message syncHockeyCalendar logs after the counts
Report(results) ==
    IF results.added > 0 \/ results.updated > 0 \/ results.removed > 0
    THEN "Changes detected" ELSE "No changes needed"

-----------------------------------------------------------------------------
(* The calendars and feeds of the model *)

\* The sequences of at most n distinct elements of S
RECURSIVE SeqsUpTo(_, _)
SeqsUpTo(S, n) ==
    IF n = 0 THEN {<<>>}
    ELSE LET shorter == SeqsUpTo(S, n - 1)
         IN shorter \cup
            UNION {{Append(q, x) : x \in S \ {q[i] : i \in 1..Len(q)}} :
                       q \in {r \in shorter : Len(r) = n - 1}}

\* The feeds tried: every game is listed once
Feeds == SeqsUpTo(Blocks, MaxFeedLen)

\* The differences between a stored time and the feed's time that are tried:
\* around the tolerance of the deployed script
Tolerance(v) == IF v = "clean" THEN ToleranceClean ELSE ToleranceStable

Deltas(v) == {Tolerance(v) - 1, Tolerance(v), Tolerance(v) + 1}

\* The calendar event an earlier run stored for B_Game
Synced(v) == createEvent(1, parseEventBlock(v, B_Game)[1])

\* Calendar events that are not managed: no prefix, or no marker
Unmanaged ==
    {[id |-> 8, title |-> S_Aa, startTime |-> T0, endTime |-> T1,
      description |-> S_UidMarkerSp \o S_Old1, location |-> S_Rk],
     [id |-> 9, title |-> EVENT_PREFIX \o S_Aa, startTime |-> T0, endTime |-> T1,
      description |-> S_d, location |-> S_Rk]}

\* Synced(v) as a script that stored BenchApp's own UIDs left it
Legacy(v, id, uid) ==
    [Synced(v) EXCEPT !.id = id, !.description = S_d \o S_NlNlUidMarker \o uid]

\* The managed events the calendar may hold at the start: none; the event of
\* B_Game as synced, with its location in lower case, with a legacy UID, twice
\* with legacy UIDs, with a legacy UID beside the synced one, and with its
\* start or end moved by about the tolerance
InitManaged(v) ==
    {{}, {Synced(v)},
     {[Synced(v) EXCEPT !.location = S_rk]},
     {Legacy(v, 1, S_Old1)},
     {Legacy(v, 1, S_Old1), Legacy(v, 2, S_Old2)},
     {Legacy(v, 1, S_Old1), [Synced(v) EXCEPT !.id = 2]}}
    \cup {{[Synced(v) EXCEPT !.startTime = PlusMs(@, delta)]} : delta \in Deltas(v)}
    \cup {{[Synced(v) EXCEPT !.endTime = MinusMs(@, delta)]} : delta \in Deltas(v)}

InitCalendars(v) == {m \cup Unmanaged : m \in InitManaged(v)}

NoRun ==
    [ran |-> FALSE, calendarFound |-> FALSE, fetched |-> FALSE, fetchOk |-> FALSE,
     source |-> <<>>, before |-> {},
     existing |-> <<>>, steps |-> <<>>, calls |-> <<>>, results |-> NoResults,
     report |-> "", outcome |-> "", error |-> ""]

Summary(run) == [ran |-> run.ran, fetchOk |-> run.fetchOk, source |-> run.source]

\* No target, no source event, no call
NoProbe == [target |-> <<>>, source |-> <<>>, log |-> <<>>]

\* createStableUID not entered
NoHashing == [start |-> <<0, 0>>, chars |-> <<>>, hash |-> <<0, 0>>, event |-> <<>>, uid |-> <<>>]

\* Two executions of the reconciler on one snapshot
Replicas == {"first", "second"}

\* Neither has run
NoTwin == [time |-> 0, out |-> [r \in Replicas |-> <<>>]]

\* cleanupDuplicateEvents has not run
NoCleanup == <<>>

\* Two executions of syncHockeyCalendar: the time trigger's and a manual one
Runners == {"trigger", "manual"}

\* An execution that has not started
Idle ==
    [phase |-> "idle", fetchOk |-> FALSE, source |-> <<>>, existing |-> <<>>,
     readAt |-> 0, overlapped |-> FALSE]

-----------------------------------------------------------------------------
(* The state machine *)

Init ==
    /\ version \in {"stable", "clean"}
    /\ feed \in Feeds
    /\ calendar \in InitCalendars(version)
    /\ runs = 0
    /\ prev = Summary(NoRun)
    /\ last = NoRun
    /\ fresh = (\A e \in calendar : ~IsManaged(e))
    /\ lastSyncTime = 0
    /\ inflight = [r \in Runners |-> Idle]
    /\ triggers = {} /\ clock = 0 /\ fired = <<>>
    /\ probe = NoProbe
    /\ hashing = NoHashing
    /\ twin = NoTwin
    /\ cleanup = NoCleanup

\* syncHockeyCalendar once the family calendar is found: fetch, read the
\* calendar, reconcile, report. An exception of a calendar call is caught, logged
\* and thrown again: nothing is reported or returned.
RunRecord(out, cal, fetchOk, hockeyEvents, existingEvents) ==
    [cal |-> out.cal,
     run |-> [ran |-> TRUE, calendarFound |-> TRUE, fetched |-> TRUE, fetchOk |-> fetchOk,
              source |-> hockeyEvents, before |-> cal, existing |-> existingEvents,
              steps |-> out.steps, calls |-> out.calls, results |-> out.results,
              report |-> IF out.failed THEN "" ELSE Report(out.results),
              outcome |-> IF out.failed THEN "threw" ELSE "returned",
              error |-> IF out.failed THEN "calendar call failed" ELSE ""]]

Reconcile(v, cal, fetchOk, hockeyEvents, existingEvents, failAt) ==
    RunRecord(processEvents(v, cal, hockeyEvents, existingEvents, failAt),
              cal, fetchOk, hockeyEvents, existingEvents)

SyncBody(v, cal, icsData, fetchOk, failAt) ==
    Reconcile(v, cal, fetchOk, fetchHockeyEvents(v, fetchOk, icsData),
              getExistingHockeyEvents(cal, Now), failAt)

\* syncHockeyCalendar without the test of what getCalendarById returned
SyncRunWithoutLookup(v, cal, icsData, calendarFound, fetchOk, failAt) ==
    LET out == SyncBody(v, cal, icsData, fetchOk, failAt)
    IN [out EXCEPT !.run.calendarFound = calendarFound]

\* syncHockeyCalendar: CalendarApp.getCalendarById comes first
SyncRun(v, cal, icsData, calendarFound, fetchOk, failAt) ==
    IF calendarFound THEN SyncBody(v, cal, icsData, fetchOk, failAt)
    ELSE [cal |-> cal,
          run |-> [NoRun EXCEPT !.ran = TRUE, !.before = cal, !.outcome = "threw",
                                !.error = "Family calendar not found"]]

\* An execution that sets lastSyncTime however it ends
LeavesWritingAlways(out, fetchOk) ==
    /\ calendar' = out.cal
    /\ last' = out.run
    /\ lastSyncTime' = runs + 1
    /\ prev' = Summary(last)
    /\ runs' = runs + 1
    /\ fresh' = (fresh /\ fetchOk)

\* What an execution of syncHockeyCalendar leaves behind: the calendar, the
\* record of the run, and lastSyncTime if the end of the try block was reached
Leaves(out, fetchOk) ==
    /\ calendar' = out.cal
    /\ last' = out.run
    /\ lastSyncTime' = IF out.run.outcome = "returned" THEN runs + 1 ELSE lastSyncTime
    /\ prev' = Summary(last)
    /\ runs' = runs + 1
    /\ fresh' = (fresh /\ fetchOk)

\* One execution of syncHockeyCalendar
syncHockeyCalendar(calendarFound, fetchOk, failAt) ==
    /\ runs < MaxRuns
    /\ Leaves(SyncRun(version, calendar, feed, calendarFound, fetchOk, failAt), fetchOk)
    /\ UNCHANGED <<version, feed, inflight, schedVars, probe, hashing, twin, cleanup>>

\* BenchApp moves the start of the game of block i from 18:00 to 19:00
Reschedule(i) ==
    /\ runs < MaxRuns
    /\ i \in 1..Len(feed)
    /\ feed[i].dtstart = T0
    /\ feed' = [feed EXCEPT ![i].dtstart = T1]
    /\ fresh' = FALSE
    /\ UNCHANGED <<version, calendar, runs, prev, last, lastSyncTime, inflight, schedVars, probe, hashing, twin, cleanup>>

\* The calendar is found and no calendar call fails
Next ==
    \/ \E fetchOk \in BOOLEAN : syncHockeyCalendar(TRUE, fetchOk, 0)
    \/ \E i \in 1..MaxFeedLen : Reschedule(i)

Spec == Init /\ [][Next]_vars

-----------------------------------------------------------------------------
(* The same script with malformed feed events and failing calendar calls *)

B_NoTitle == Block(<<>>, T0, T2, S_Rk, S_d)         \* no SUMMARY
B_NoStart == Block(S_Cc, NoTime, NoTime, S_Rk, S_d) \* DTSTART missing or without yyyymmddThhmmss

FaultyBlocks == {B_Game, B_NoTitle, B_NoStart}

\* A managed event whose marker is followed by no identity
Unreadable(v) ==
    [Synced(v) EXCEPT !.id = 3, !.description = S_d \o S_NlNlUidMarker]

InitFaulty ==
    /\ version \in {"stable", "clean"}
    /\ feed \in SeqsUpTo(FaultyBlocks, MaxFeedLen)
    /\ calendar \in {m \cup Unmanaged :
                        m \in {{}, {Synced(version)},
                               {Legacy(version, 1, S_Old1), Legacy(version, 2, S_Old2)},
                               {Synced(version), Unreadable(version)}}}
    /\ runs = 0
    /\ prev = Summary(NoRun)
    /\ last = NoRun
    /\ fresh = (\A e \in calendar : ~IsManaged(e))
    /\ lastSyncTime = 0
    /\ inflight = [r \in Runners |-> Idle]
    /\ triggers = {} /\ clock = 0 /\ fired = <<>>
    /\ probe = NoProbe
    /\ hashing = NoHashing
    /\ twin = NoTwin
    /\ cleanup = NoCleanup

\* The calendar may be missing, the fetch may throw, a calendar call may throw
NextFaulty ==
    \E calendarFound \in BOOLEAN : \E fetchOk \in BOOLEAN : \E failAt \in 0..MaxFailAt :
        syncHockeyCalendar(calendarFound, fetchOk, failAt)

SpecFaulty == InitFaulty /\ [][NextFaulty]_vars

-----------------------------------------------------------------------------
(* Two executions of syncHockeyCalendar on one calendar.  Each execution is  *)
(* two steps: it reads (fetchHockeyEvents, getExistingHockeyEvents), and     *)
(* later it reconciles (processEvents) what it has read against the         *)
(* calendar as it then is. Nothing in the scripts takes a lock, so the      *)
(* steps of the two executions interleave freely.                           *)

\* What an execution holds after fetchHockeyEvents and getExistingHockeyEvents
ReadPhase(v, cal, icsData, fetchOk, n) ==
    [phase |-> "read", fetchOk |-> fetchOk,
     source |-> fetchHockeyEvents(v, fetchOk, icsData),
     existing |-> getExistingHockeyEvents(cal, Now),
     readAt |-> n, overlapped |-> FALSE]

\* An execution that starts only while no other execution is between its
\* read and its end
BeginRunExclusive(r, fetchOk) ==
    /\ inflight[r].phase = "idle"
    /\ \A s \in Runners : inflight[s].phase # "read"
    /\ inflight' = [inflight EXCEPT ![r] = ReadPhase(version, calendar, feed, fetchOk, runs)]
    /\ UNCHANGED <<version, feed, calendar, runs, prev, last, fresh, lastSyncTime, schedVars, probe, hashing, twin, cleanup>>

\* Execution r starts: it finds the calendar, fetches the feed and reads the
\* managed events of the window
BeginRun(r, fetchOk) ==
    /\ inflight[r].phase = "idle"
    /\ inflight' = [inflight EXCEPT ![r] = ReadPhase(version, calendar, feed, fetchOk, runs)]
    /\ UNCHANGED <<version, feed, calendar, runs, prev, last, fresh, lastSyncTime, schedVars, probe, hashing, twin, cleanup>>

\* Execution r reconciles what it read, reports and sets lastSyncTime
FinishRun(r) ==
    /\ inflight[r].phase = "read"
    /\ Leaves(Reconcile(version, calendar, inflight[r].fetchOk, inflight[r].source,
                        inflight[r].existing, 0), inflight[r].fetchOk)
    /\ inflight' = [inflight EXCEPT ![r].phase = "done",
                                    ![r].overlapped = (runs # inflight[r].readAt)]
    /\ UNCHANGED <<version, feed, schedVars, probe, hashing, twin, cleanup>>

\* The calendar holds no managed event yet
InitOverlap ==
    /\ version \in {"stable", "clean"}
    /\ feed \in Feeds
    /\ calendar \in {{}, Unmanaged}
    /\ runs = 0
    /\ prev = Summary(NoRun)
    /\ last = NoRun
    /\ fresh = TRUE
    /\ lastSyncTime = 0
    /\ inflight = [r \in Runners |-> Idle]
    /\ triggers = {} /\ clock = 0 /\ fired = <<>>
    /\ probe = NoProbe
    /\ hashing = NoHashing
    /\ twin = NoTwin
    /\ cleanup = NoCleanup

NextOverlap ==
    \/ \E r \in Runners : \E fetchOk \in BOOLEAN : BeginRun(r, fetchOk)
    \/ \E r \in Runners : FinishRun(r)

SpecOverlap == InitOverlap /\ [][NextOverlap]_vars

-----------------------------------------------------------------------------
(* The time trigger: setupTriggers.  Three scripts define it: the original  *)
(* script (src/unnamed/part_001:323-339), the condensed script              *)
(* (src/unnamed/part_000:453-469) and the clean script                      *)
(* (src/unnamed/part_001:730-769).  Here version names one of these three.  *)

Scripts == {"original", "condensed", "clean"}

\* The argument of .everyHours(...) in setupTriggers of script v
EveryHours(v) == IF v = "original" THEN 3 ELSE 6

\* A trigger of the project: since is the hour it was created or last fired
Trigger(id, handler, hours, by, since) ==
    [id |-> id, handler |-> handler, hours |-> hours, by |-> by, since |-> since]

\* Triggers the project may hold before setupTriggers is called: none, an
\* hourly sync trigger added by hand, a trigger of another function, and two
\* sync triggers beside a trigger of another function
InitTriggers ==
    {{}, {Trigger(1, "syncHockeyCalendar", 1, "user", 0)},
         {Trigger(2, "getSyncStatus", 4, "user", 0)},
         {Trigger(1, "syncHockeyCalendar", 1, "user", 0),
          Trigger(2, "getSyncStatus", 4, "user", 0),
          Trigger(3, "syncHockeyCalendar", 6, "user", 0)}}

NewTriggerId(ts) ==
    IF ts = {} THEN 1 ELSE 1 + (CHOOSE m \in {x.id : x \in ts} : \A x \in ts : x.id <= m)

\* A setupTriggers that creates its trigger without deleting the old ones
setupTriggersAdding(createOk) ==
    /\ Len(SelectSeq(fired, LAMBDA f : f.by = "setup")) < MaxSetups
    /\ triggers' = IF createOk
                   THEN triggers \cup {Trigger(NewTriggerId(triggers), "syncHockeyCalendar",
                                               EveryHours(version), "setupTriggers", clock)}
                   ELSE triggers
    /\ fired' = Append(fired, [by |-> "setup", handler |-> "", gap |-> 0, created |-> createOk])
    /\ UNCHANGED <<version, syncVars, clock, probe, hashing, twin, cleanup>>

\* setupTriggers: every trigger of syncHockeyCalendar is deleted, then one is
\* created with .timeBased().everyHours(n).create(), which may fail
setupTriggers(createOk) ==
    /\ Len(SelectSeq(fired, LAMBDA f : f.by = "setup")) < MaxSetups
    /\ LET kept == {x \in triggers : x.handler # "syncHockeyCalendar"}
       IN triggers' = IF createOk
                      THEN kept \cup {Trigger(NewTriggerId(triggers), "syncHockeyCalendar",
                                              EveryHours(version), "setupTriggers", clock)}
                      ELSE kept
    /\ fired' = Append(fired, [by |-> "setup", handler |-> "", gap |-> 0, created |-> createOk])
    /\ UNCHANGED <<version, feed, calendar, runs, prev, last, fresh, lastSyncTime, inflight, clock, probe, hashing, twin, cleanup>>

\* Trigger x is due: its handler is started, hours after it was created or
\* last fired
TriggerFires(x) ==
    /\ x \in triggers
    /\ clock = x.since + x.hours
    /\ triggers' = (triggers \ {x}) \cup {[x EXCEPT !.since = clock]}
    /\ fired' = Append(fired, [by |-> x.by, handler |-> x.handler, gap |-> clock - x.since,
                               created |-> FALSE])
    /\ UNCHANGED <<version, feed, calendar, runs, prev, last, fresh, lastSyncTime, inflight, clock, probe, hashing, twin, cleanup>>

\* An hour passes once every due trigger has fired
HourPasses ==
    /\ clock < MaxHours
    /\ \A x \in triggers : clock < x.since + x.hours
    /\ clock' = clock + 1
    /\ UNCHANGED <<version, feed, calendar, runs, prev, last, fresh, lastSyncTime, inflight,
                   triggers, fired, probe, hashing, twin, cleanup>>

InitTriggered ==
    /\ version \in Scripts
    /\ feed = <<>>
    /\ calendar = {}
    /\ runs = 0
    /\ prev = Summary(NoRun)
    /\ last = NoRun
    /\ fresh = TRUE
    /\ lastSyncTime = 0
    /\ inflight = [r \in Runners |-> Idle]
    /\ triggers \in InitTriggers
    /\ clock = 0
    /\ fired = <<>>
    /\ probe = NoProbe
    /\ hashing = NoHashing
    /\ twin = NoTwin
    /\ cleanup = NoCleanup

NextTriggered ==
    \/ \E createOk \in BOOLEAN : setupTriggers(createOk)
    \/ \E x \in triggers : TriggerFires(x)
    \/ HourPasses

SpecTriggered == InitTriggered /\ [][NextTriggered]_vars

-----------------------------------------------------------------------------
(* createEvent, updateEvent and needsUpdate called on one target handle and *)
(* one source event, in any order.                                          *)

B_Prefixed == Block(EVENT_PREFIX \o S_Aa, T0, T2, S_Rk, S_d)  \* '[Hockey] Aa' as SUMMARY

ProbeBlocks == Blocks \cup {B_Prefixed}

\* The source events parseEventBlock makes of the blocks
ProbeSources(v) == {parseEventBlock(v, b)[1] : b \in ProbeBlocks}

\* The managed events a target handle may stand for; none when the source
\* event has no target yet
ProbeTargets(v) == {<<>>} \cup {<<e>> : e \in UNION InitManaged(v)}

\* One call: the target and the source event before and after it, what it
\* returned (FALSE for createEvent and updateEvent, which return nothing) and
\* the mutating calendar calls it made
Logged(op, answer, before, after, source, calls) ==
    [op |-> op, answer |-> answer, before |-> before, after |-> after,
     sourceBefore |-> probe.source, sourceAfter |-> source, calls |-> calls]

\* createEvent(calendar, hockeyEvent) for a source event without target
CallCreateEvent ==
    /\ Len(probe.log) < MaxProbes
    /\ probe.target = <<>>
    /\ LET event == createEvent(1, probe.source[1])
       IN probe' = [probe EXCEPT !.target = <<event>>,
                                 !.log = Append(probe.log,
                                     Logged("createEvent", FALSE, <<>>, <<event>>,
                                            probe.source, <<Call("create", 1)>>))]
    /\ UNCHANGED <<version, syncVars, schedVars, hashing, twin, cleanup>>

\* updateEvent(existingEvent, hockeyEvent)
CallUpdateEvent ==
    /\ Len(probe.log) < MaxProbes
    /\ probe.target # <<>>
    /\ LET event == updateEvent(probe.target[1], probe.source[1])
       IN probe' = [probe EXCEPT !.target = <<event>>,
                                 !.log = Append(probe.log,
                                     Logged("updateEvent", FALSE, probe.target, <<event>>,
                                            probe.source, <<Call("update", event.id)>>))]
    /\ UNCHANGED <<version, syncVars, schedVars, hashing, twin, cleanup>>

\* needsUpdate(existingEvent, hockeyEvent)
CallNeedsUpdate ==
    /\ Len(probe.log) < MaxProbes
    /\ probe.target # <<>>
    /\ LET out == QueryNeedsUpdate(version, probe.target[1], probe.source[1])
       IN probe' = [target |-> <<out.existingEvent>>,
                    source |-> <<out.hockeyEvent>>,
                    log |-> Append(probe.log,
                               Logged("needsUpdate", out.answer, probe.target,
                                      <<out.existingEvent>>, <<out.hockeyEvent>>,
                                      out.calls))]
    /\ UNCHANGED <<version, syncVars, schedVars, hashing, twin, cleanup>>

InitCompare ==
    /\ version \in {"stable", "clean"}
    /\ feed = <<>>
    /\ calendar = {}
    /\ runs = 0
    /\ prev = Summary(NoRun)
    /\ last = NoRun
    /\ fresh = TRUE
    /\ lastSyncTime = 0
    /\ inflight = [r \in Runners |-> Idle]
    /\ triggers = {} /\ clock = 0 /\ fired = <<>>
    /\ probe \in {[target |-> target, source |-> <<s>>, log |-> <<>>] :
                      target \in ProbeTargets(version), s \in ProbeSources(version)}
    /\ hashing = NoHashing
    /\ twin = NoTwin
    /\ cleanup = NoCleanup

NextCompare ==
    \/ CallCreateEvent
    \/ CallUpdateEvent
    \/ CallNeedsUpdate

SpecCompare == InitCompare /\ [][NextCompare]_vars

-----------------------------------------------------------------------------
(* createStableUID on its own: the loop over the char codes, and whole calls *)

MaxChars == 3

\* Values of the hash variable on entry to a round: zero, small, the largest
\* and the smallest signed word, minus one, and words around the bits that
\* hash << 5 shifts out
SampleWords ==
    {<<0, 0>>, <<0, 1>>, <<0, 65535>>, <<2047, 65535>>, <<2048, 0>>, <<32767, 65535>>,
     <<32768, 0>>, <<32768, 1>>, <<65535, 65535>>}

\* Values of stableString.charCodeAt(i): a UTF-16 code unit
SampleChars == {0, 1, 65, 124, 65535}

\* Events handed to createStableUID: the parsed blocks, and one whose title and
\* location carry white space around them
HashedEvents ==
    LET parsed == ProbeSources("stable")
        e == CHOOSE x \in parsed : x.title = S_Aa
    IN parsed \cup {[e EXCEPT !.title = <<32>> \o e.title \o <<32, 32>>,
                             !.location = <<9>> \o e.location]}

\* One round of the for loop of createStableUID, on char code c
HashChar(c) ==
    /\ Len(hashing.chars) < MaxChars
    /\ hashing' = [hashing EXCEPT !.chars = Append(hashing.chars, c),
                                   !.hash = HashStep(hashing.hash, c)]
    /\ UNCHANGED <<version, syncVars, schedVars, probe, twin, cleanup>>

\* createStableUID(event)
CallCreateStableUID ==
    /\ hashing.uid = <<>>
    /\ hashing' = [hashing EXCEPT !.uid = createStableUID(hashing.event[1])]
    /\ UNCHANGED <<version, syncVars, schedVars, probe, twin, cleanup>>

InitHash ==
    /\ version \in {"stable", "clean"}
    /\ feed = <<>>
    /\ calendar = {}
    /\ runs = 0
    /\ prev = Summary(NoRun)
    /\ last = NoRun
    /\ fresh = TRUE
    /\ lastSyncTime = 0
    /\ inflight = [r \in Runners |-> Idle]
    /\ triggers = {} /\ clock = 0 /\ fired = <<>>
    /\ probe = NoProbe
    /\ hashing \in {[start |-> w, chars |-> <<>>, hash |-> w, event |-> <<e>>, uid |-> <<>>] :
                        w \in SampleWords, e \in HashedEvents}
    /\ twin = NoTwin
    /\ cleanup = NoCleanup

NextHash ==
    \/ \E c \in SampleChars : HashChar(c)
    \/ CallCreateStableUID

SpecHash == InitHash /\ [][NextHash]_vars

-----------------------------------------------------------------------------
(* The reconciler run twice on one source list and one calendar snapshot *)

\* What an execution of the reconciler produced; results are returned only
\* when no calendar call threw
ReplicaRecord(out, at, failAt) ==
    [at |-> at, failAt |-> failAt, failed |-> out.failed, results |-> out.results,
     calls |-> out.calls, steps |-> out.steps, cal |-> out.cal]

\* processEventsWithStableUIDs / processEvents(familyCalendar, hockeyEvents,
\* existingEvents) of replica r, on its own copy of the snapshot
ReconcileReplica(r, failAt) ==
    /\ twin.out[r] = <<>>
    /\ twin' = [time |-> twin.time + 1,
                out |-> [twin.out EXCEPT ![r] =
                    <<ReplicaRecord(processEvents(version, calendar,
                                                  fetchHockeyEvents(version, TRUE, feed),
                                                  getExistingHockeyEvents(calendar, Now),
                                                  failAt),
                                    twin.time + 1, failAt)>>]]
    /\ UNCHANGED <<version, syncVars, schedVars, probe, hashing, cleanup>>

InitTwin ==
    /\ twin = NoTwin
    /\ version \in {"stable", "clean"}
    /\ feed \in Feeds
    /\ calendar \in InitCalendars(version)
    /\ runs = 0
    /\ prev = Summary(NoRun)
    /\ last = NoRun
    /\ fresh = TRUE
    /\ lastSyncTime = 0
    /\ inflight = [r \in Runners |-> Idle]
    /\ triggers = {} /\ clock = 0 /\ fired = <<>>
    /\ probe = NoProbe
    /\ hashing = NoHashing
    /\ cleanup = NoCleanup

NextTwin ==
    \E r \in Replicas, failAt \in 0..MaxFailAt : ReconcileReplica(r, failAt)

SpecTwin == InitTwin /\ [][NextTwin]_vars

-----------------------------------------------------------------------------
(* The same script on a feed that lists two games of one title at one rink
   whose starts lie closer together than the tolerance of needsUpdate *)

\* The game of B_Game again, one millisecond less than the stable script's
\* tolerance later
B_Soon == Block(S_Aa, PlusMs(T0, ToleranceStable - 1), T2, S_Rk, S_d)

NearBlocks == {B_Game, B_Soon, B_Bare, B_Late}

InitNear ==
    /\ version \in {"stable", "clean"}
    /\ feed \in SeqsUpTo(NearBlocks, MaxFeedLen)
    /\ calendar \in InitCalendars(version)
    /\ runs = 0
    /\ prev = Summary(NoRun)
    /\ last = NoRun
    /\ fresh = (\A e \in calendar : ~IsManaged(e))
    /\ lastSyncTime = 0
    /\ inflight = [r \in Runners |-> Idle]
    /\ triggers = {} /\ clock = 0 /\ fired = <<>>
    /\ probe = NoProbe
    /\ hashing = NoHashing
    /\ twin = NoTwin
    /\ cleanup = NoCleanup

NextNear ==
    \E fetchOk \in BOOLEAN : syncHockeyCalendar(TRUE, fetchOk, 0)

SpecNear == InitNear /\ [][NextNear]_vars

-----------------------------------------------------------------------------
(* cleanupDuplicateEvents (src/src/debug-functions.js) *)

MaxCleanups == 2

\* A key of the title alone
GroupKeyByTitle(event) == event.title

\* `${event.getTitle()}|${event.getStartTime().getTime()}`
GroupKey(event) == event.title \o S_Bar \o TimeString(event.startTime)

\* The index of the first event of the list that has the key of the i-th:
\* where eventGroups.get(key) starts
GroupStart(cal, existing, i) ==
    LET same == {j \in 1..i : GroupKey(Ev(cal, existing[j])) = GroupKey(Ev(cal, existing[i]))}
    IN CHOOSE j \in same : \A k \in same : j <= k

\* eventGroups.forEach with the inner for loop from index 1: the events it
\* deletes, group by group in the order the keys were first seen, and within a
\* group in list order; is holds the list indices not yet placed
RECURSIVE DuplicatesIn(_, _, _)
DuplicatesIn(cal, existing, is) ==
    IF is = {} THEN <<>>
    ELSE LET next == CHOOSE i \in is : \A j \in is :
                         \/ GroupStart(cal, existing, i) < GroupStart(cal, existing, j)
                         \/ (GroupStart(cal, existing, i) = GroupStart(cal, existing, j) /\ i <= j)
         IN <<existing[next]>> \o DuplicatesIn(cal, existing, is \ {next})

Duplicates(cal, existing) ==
    DuplicatesIn(cal, existing, {i \in 1..Len(existing) : GroupStart(cal, existing, i) # i})

\* What a call leaves behind when the failAt-th deleteEvent throws (0: none)
CleanupRecord(cal, existing, doomed, failAt) ==
    LET failed == failAt \in 1..Len(doomed)
        deleted == IF failed THEN SubSeq(doomed, 1, failAt - 1) ELSE doomed
    IN [calendarFound |-> TRUE, before |-> cal, existing |-> existing, deleted |-> deleted,
        duplicatesRemoved |-> Len(deleted),
        after |-> {e \in cal : \A k \in 1..Len(deleted) : deleted[k] # e.id},
        outcome |-> IF failed THEN "threw" ELSE "returned"]

\* cleanupDuplicateEvents on calendar cal. getCalendarById is not tested: on
\* null, getExistingHockeyEvents throws at calendar.getEvents.
CleanupRun(cal, calendarFound, failAt) ==
    IF calendarFound
    THEN CleanupRecord(cal, getExistingHockeyEvents(cal, Now),
                       Duplicates(cal, getExistingHockeyEvents(cal, Now)), failAt)
    ELSE [calendarFound |-> FALSE, before |-> cal, existing |-> <<>>, deleted |-> <<>>,
          duplicatesRemoved |-> 0, after |-> cal, outcome |-> "threw"]

CleanupLeaves(run) ==
    /\ calendar' = run.after
    /\ cleanup' = Append(cleanup, run)

\* One execution of cleanupDuplicateEvents
cleanupDuplicateEvents(calendarFound, failAt) ==
    /\ Len(cleanup) < MaxCleanups
    /\ CleanupLeaves(CleanupRun(calendar, calendarFound, failAt))
    /\ UNCHANGED <<version, feed, runs, prev, last, fresh, lastSyncTime, inflight, schedVars,
                   probe, hashing, twin>>

\* Managed events an earlier, duplicating script may have left: the game of
\* B_Game twice, once more with the notes of B_Note, and once moved to 19:00;
\* the game of B_Bare twice; a game played ten days ago twice
DuplicatePool(v) ==
    {createEvent(1, parseEventBlock(v, B_Game)[1]),
     createEvent(2, parseEventBlock(v, B_Bare)[1]),
     createEvent(3, parseEventBlock(v, B_Game)[1]),
     createEvent(4, parseEventBlock(v, B_Note)[1]),
     createEvent(5, parseEventBlock(v, B_Bare)[1]),
     createEvent(6, parseEventBlock(v, [B_Game EXCEPT !.dtstart = T1])[1]),
     createEvent(7, parseEventBlock(v, B_Past)[1]),
     createEvent(10, parseEventBlock(v, B_Past)[1])}

InitCleanup ==
    /\ version \in {"stable", "clean"}
    /\ feed = <<>>
    /\ calendar \in {m \cup Unmanaged : m \in SUBSET DuplicatePool(version)}
    /\ runs = 0
    /\ prev = Summary(NoRun)
    /\ last = NoRun
    /\ fresh = TRUE
    /\ lastSyncTime = 0
    /\ inflight = [r \in Runners |-> Idle]
    /\ triggers = {} /\ clock = 0 /\ fired = <<>>
    /\ probe = NoProbe
    /\ hashing = NoHashing
    /\ twin = NoTwin
    /\ cleanup = NoCleanup

NextCleanup ==
    \E calendarFound \in BOOLEAN : \E failAt \in 0..MaxFailAt :
        cleanupDuplicateEvents(calendarFound, failAt)

SpecCleanup == InitCleanup /\ [][NextCleanup]_vars

-----------------------------------------------------------------------------
(* Properties *)

\* Two consecutive runs that both fetched the feed and parsed the same source list
SameSourceTwice ==
    /\ prev.ran /\ prev.fetchOk
    /\ last.ran /\ last.fetchOk
    /\ prev.source = last.source

\* The calls of the last run that mutate the calendar
Mutations(run) == SelectSeq(run.calls, LAMBDA c : c.op # "sleep")

\* C1: idempotence. A run that immediately follows a completed run on the same
\* source list reports added = updated = migrated = removed = 0, issues no
\* create, update or delete, and counts every source event as unchanged.
C1_Idempotence ==
    SameSourceTwice =>
        /\ last.results = [NoResults EXCEPT !.unchanged = Len(last.source)]
        /\ Mutations(last) = <<>>


\* The handles the last run deleted, updated, created
Deleted(run) == {run.calls[k].id : k \in {n \in 1..Len(run.calls) : run.calls[n].op = "delete"}}
Updated(run) == {run.calls[k].id : k \in {n \in 1..Len(run.calls) : run.calls[n].op = "update"}}
Created(run) == {run.calls[k].id : k \in {n \in 1..Len(run.calls) : run.calls[n].op = "create"}}

\* C2: a failed source load aborts the run with no mutation: the calendar is
\* the same before and after the run and no create, update or delete is issued.
C2_FailedLoadAborts ==
    (last.ran /\ ~last.fetchOk) =>
        /\ calendar = last.before
        /\ Mutations(last) = <<>>

\* C3: no duplicates. Starting without managed events, after any number of
\* successful runs against the same feed the calendar holds at most one
\* managed event per source event.
C3_NoDuplicates ==
    (fresh /\ last.ran) =>
        Cardinality({e \in calendar : IsManaged(e)}) <= Len(last.source)

\* C4: no false deletion. A target is deleted only if its stored identity is
\* the identity of no source event and its content key is the content key of
\* no source event.
C4_NoFalseDeletion ==
    \A id \in Deleted(last) :
        LET target == Ev(last.before, id)
        IN \A i \in 1..Len(last.source) :
               /\ last.source[i].uid # extractUIDFromDescription(target.description)
               /\ SourceContentKey(last.source[i]) # TargetContentKey(target)


\* The identities of the source events of a run
SourceUids(run) == {run.source[i].uid : i \in 1..Len(run.source)}

\* Target id of the last run stores an identity no source event has, and its
\* content key is the content key of source event i
RescuedByContent(i, id) ==
    LET target == Ev(last.before, id)
    IN /\ extractUIDFromDescription(target.description) \notin SourceUids(last)
       /\ TargetContentKey(target) = SourceContentKey(last.source[i])

\* Source event i of the last run was migrated onto target id, which was kept
MigratedOnto(i, id) ==
    /\ last.steps[i].class = "migrated"
    /\ last.steps[i].target = id
    /\ id \in Updated(last)
    /\ id \notin Deleted(last)
    /\ last.results.migrated >= 1

ClaimedBy(run, id) ==
    {i \in 1..Len(run.steps) : run.steps[i].class # "added" /\ run.steps[i].target = id}

\* C6: in one run every source event gets exactly one of added, updated,
\* migrated, unchanged, and every target supplied to the run is either claimed
\* by exactly one source event or removed, never both and never neither.
C6_ExactlyOneClassification ==
    last.ran =>
        /\ Len(last.steps) = Len(last.source)
        /\ \A i \in 1..Len(last.steps) :
              last.steps[i].class \in {"added", "updated", "migrated", "unchanged"}
        /\ \A k \in 1..Len(last.existing) :
              Cardinality(ClaimedBy(last, last.existing[k]))
                  + (IF last.existing[k] \in Deleted(last) THEN 1 ELSE 0) = 1

\* The events getExistingHockeyEvents does not return for want of the title
\* prefix or of the marker in the description
LacksPrefixOrMarker(event) ==
    \/ ~StartsWith(event.title, EVENT_PREFIX)
    \/ ~Includes(event.description, S_UidMarker)

\* C7: a run never updates or deletes a calendar event whose title lacks the
\* configured prefix or whose description lacks the 'Hockey-UID:' marker.
C7_UnmanagedUntouched ==
    \A e \in last.before :
        LacksPrefixOrMarker(e) =>
            /\ e \in calendar
            /\ e.id \notin Updated(last) \cup Deleted(last)

\* A run updated and deleted managed events while the calendar held
\* an event without the prefix and an event without the marker
W_C7_MutatingRun ==
    /\ last.ran
    /\ Updated(last) # {} /\ Deleted(last) # {}
    /\ \E e \in last.before : ~StartsWith(e.title, EVENT_PREFIX)
                                  /\ Includes(e.description, S_UidMarker)
    /\ \E e \in last.before : StartsWith(e.title, EVENT_PREFIX)
                                  /\ ~Includes(e.description, S_UidMarker)

\* Source events a and b differ in the start time (and the identity derived
\* from it) and in nothing else
OnlyStartDiffers(a, b) ==
    /\ a.startTime # b.startTime
    /\ b = [a EXCEPT !.startTime = b.startTime, !.uid = b.uid]

\* C8: when a source event's start time changes between two runs and all its
\* other fields stay equal, the second run updates the existing target in place:
\* one update on that target, no create and no delete for that event.
C8_RescheduleUpdatesInPlace ==
    (prev.ran /\ prev.fetchOk /\ last.ran /\ last.fetchOk
        /\ Len(prev.source) = Len(last.source)) =>
        \A i \in 1..Len(last.source) : \A k \in 1..Len(last.existing) :
            ( /\ OnlyStartDiffers(prev.source[i], last.source[i])
              /\ Ev(last.before, last.existing[k])
                    = createEvent(last.existing[k], prev.source[i]) )
            => /\ last.steps[i].class = "updated"
               /\ last.steps[i].target = last.existing[k]
               /\ last.existing[k] \notin Deleted(last)

\* The difference of a and b is exactly d milliseconds
AbsDiffIs(a, b, d) == AbsDiffExceeds(a, b, d - 1) /\ ~AbsDiffExceeds(a, b, d)

\* The claimed verdict on two times: a difference one millisecond under the
\* threshold is no change, a difference of the threshold or more is a change
BoundaryVerdict(a, b, need) ==
    /\ AbsDiffIs(a, b, Tolerance(version) - 1) => ~need
    /\ AbsDiffExceeds(a, b, Tolerance(version) - 1) => need

\* The steps of the last run in which needsUpdate compared a target found by UID
Compared == {i \in 1..Len(last.steps) :
                last.steps[i].seen # <<>> /\ ~last.steps[i].isMigration}

\* The steps of Compared whose source event, once written to its target, gives
\* needsUpdate no reason to update: the times are then the only difference
TimesOnly == {i \in Compared :
                ~needsUpdate(version, createEvent(last.steps[i].target, last.source[i]),
                             last.source[i])}

\* C9: with all other fields equal, needsUpdate is false for a start (or end)
\* difference of threshold - 1 ms and true for a difference of at least the
\* threshold (60000 ms in the stable script, 300000 ms in the clean script).
C9_ToleranceBoundary ==
    \A i \in TimesOnly :
        LET target == last.steps[i].seen[1]
            synced == createEvent(target.id, last.source[i])
        IN /\ target = [synced EXCEPT !.startTime = target.startTime]
                => BoundaryVerdict(target.startTime, synced.startTime, last.steps[i].need)
           /\ target = [synced EXCEPT !.endTime = target.endTime]
                => BoundaryVerdict(target.endTime, synced.endTime, last.steps[i].need)

\* C10: a target and a source event whose locations differ only in letter case
\* or surrounding whitespace, all other fields equal, need no update.
C10_LocationCaseInsensitive ==
    \A i \in Compared :
        LET target == last.steps[i].seen[1]
            synced == createEvent(target.id, last.source[i])
        IN ( /\ target = [synced EXCEPT !.location = target.location]
             /\ Trim(ToLowerCase(target.location)) = Trim(ToLowerCase(synced.location)) )
           => ~last.steps[i].need /\ last.steps[i].class = "unchanged"


\* Events a and b have the same (title, startTime, location) triple
SameTriple(a, b) ==
    a.title = b.title /\ a.startTime = b.startTime /\ a.location = b.location

\* The events the last two runs fetched
Fetched ==
    {prev.source[i] : i \in 1..Len(prev.source)} \cup {last.source[i] : i \in 1..Len(last.source)}

\* Event s with other end times, descriptions and feed UIDs
Variants(s) ==
    {[title |-> s.title, startTime |-> s.startTime, location |-> s.location,
      endTime |-> e, description |-> d, originalUID |-> u] :
        e \in {NoTime, T2, PlusMs(T2, 1)}, d \in {<<>>, S_d, S_UidMarkerSp \o S_x},
        u \in {S_Old1, S_Old2}}

\* C11: identity determinism. Events with the same (title, startTime, location)
\* get the same identity whatever their other fields (endTime, description,
\* feed UID) and however often the identity is derived; two fetches of an
\* unchanged feed give the event at each index the same identity.
C11_IdentityDeterminism ==
    /\ \A a \in Fetched : \A b \in Fetched : SameTriple(a, b) => a.uid = b.uid
    /\ \A s \in Fetched : \A x \in Variants(s) : createStableUID(x) = s.uid
    /\ (prev.ran /\ last.ran /\ Len(prev.source) = Len(last.source)) =>
          \A i \in 1..Len(last.source) :
              SameTriple(prev.source[i], last.source[i])
                  => prev.source[i].uid = last.source[i].uid

\* Two fetches of the same feed, which lists two games with the same triple and
\* different descriptions
W_C11_SameTripleTwice ==
    /\ prev.ran /\ prev.fetchOk /\ last.ran /\ last.fetchOk
    /\ prev.source = last.source
    /\ \E i \in 1..Len(last.source) : \E j \in 1..Len(last.source) :
          /\ i # j
          /\ SameTriple(last.source[i], last.source[j])
          /\ last.source[i].description # last.source[j].description
          /\ last.source[i].uid = last.source[j].uid


\* The delete calls of a run, in the order issued
Deletes(run) == SelectSeq(run.calls, LAMBDA c : c.op = "delete")

\* C12: when the source list is legitimately empty, every target passed to
\* the run is removed: removed is the number of targets, each target gets
\* exactly one delete call, and added = updated = migrated = unchanged = 0.
C12_EmptySourceRemovesAll ==
    (last.ran /\ last.fetchOk /\ last.outcome = "returned" /\ last.source = <<>>) =>
        /\ last.results = [NoResults EXCEPT !.removed = Len(last.existing)]
        /\ Len(Deletes(last)) = Len(last.existing)
        /\ Deleted(last) = {last.existing[k] : k \in 1..Len(last.existing)}
        /\ Created(last) = {} /\ Updated(last) = {}


\* The calendar event the last run wrote for source event i (created or updated)
Written(i) ==
    IF last.steps[i].class = "added"
    THEN createEvent(last.steps[i].target, last.source[i])
    ELSE updateEvent(last.steps[i].seen[1], last.source[i])

\* C13: marker round trip. For every source event, whatever its description,
\* extractUIDFromDescription applied to the description createEvent or
\* updateEvent writes returns the event's identity; the legacy marker
\* 'Hockey-UID:<id>' without a space is recovered too.
C13_MarkerRoundTrip ==
    /\ \A i \in 1..Len(last.steps) :
          last.steps[i].class # "unchanged"
              => extractUIDFromDescription(Written(i).description) = last.source[i].uid
    /\ \A e \in last.before : \A uid \in {S_Old1, S_Old2} :
          e.description = S_d \o S_NlNlUidMarker \o uid
              => extractUIDFromDescription(e.description) = uid


\* A calendar call of the last run threw
CallFailed == last.ran /\ last.error = "calendar call failed"

\* What the last run does on the same source and targets when no call throws
Unfailed == processEvents(version, last.before, last.source, last.existing, 0)

\* C14: a failing create, update or delete is local to its event: the run goes
\* on with the remaining source and target events and returns a report, instead
\* of aborting at the first failing call. Stated for runs that have at least
\* two calendar calls to make.
C14_MutationFailureIsLocal ==
    (CallFailed /\ Len(Mutations(Unfailed)) >= 2) =>
        /\ last.outcome = "returned"
        /\ last.report # ""
        /\ Len(Mutations(last)) >= Len(Mutations(Unfailed)) - 1


\* The blocks of the feed that have a title and a start time, in feed order
WellFormed == SelectSeq(feed, LAMBDA b : Trim(b.summary) # <<>> /\ b.dtstart # NoTime)

\* C15: a malformed feed event (no title, or no parseable start time) is
\* dropped without aborting the run: the source list is, in feed order, exactly
\* the events with a title and a start time, each with its derived identity.
C15_MalformedEventsDropped ==
    (last.ran /\ last.fetched /\ last.fetchOk) =>
        /\ Len(last.source) = Len(WellFormed)
        /\ \A i \in 1..Len(last.source) :
              /\ last.source[i].title = Trim(WellFormed[i].summary)
              /\ last.source[i].startTime = WellFormed[i].dtstart
              /\ last.source[i].uid = createStableUID(last.source[i])
              /\ last.source[i].uid # <<>>
        /\ last.error # "calendar call failed" => last.outcome = "returned"

\* A run fetched a feed that lists a malformed event before a well-formed one,
\* and returned
W_C15_MalformedFirst ==
    /\ last.ran /\ last.fetchOk /\ last.outcome = "returned"
    /\ Len(feed) = 2 /\ Len(last.source) = 1
    /\ (Trim(feed[1].summary) = <<>> \/ feed[1].dtstart = NoTime)
    /\ last.source[1].title = S_Aa


\* The reported outcome of a successful run that found nothing to change: it
\* returns counts without a change and logs 'No changes needed'
ReportsNoChanges(run) ==
    /\ run.outcome = "returned"
    /\ run.report = "No changes needed"
    /\ run.results.added = 0 /\ run.results.updated = 0
    /\ run.results.removed = 0 /\ run.results.migrated = 0

\* C16: the reported outcome tells 'no changes, run succeeded' from 'nothing
\* happened because of a failure': a run whose source load failed never ends
\* in the reported outcome of a successful run that found nothing to change.
C16_FailureDistinctFromNoChanges ==
    (last.ran /\ last.fetched /\ ~last.fetchOk) => ~ReportsNoChanges(last)


\* The create and update calls of a run, in the order issued
Writes(run) == SelectSeq(run.calls, LAMBDA c : c.op \in {"create", "update"})

\* The steps of a run that issued a call, in source order
WritingSteps(run) == SelectSeq(run.steps, LAMBDA s : s.class # "unchanged")

\* The position of target id in the list of targets the run read
PositionOf(run, id) == CHOOSE k \in 1..Len(run.existing) : run.existing[k] = id

\* C17: mutation ordering in one run. Every create and update is issued
\* before any delete; creates and updates follow the source list's order and
\* deletes follow the target list's order.
C17_MutationOrdering ==
    /\ Mutations(last) = Writes(last) \o Deletes(last)
    /\ Len(Writes(last)) = Len(WritingSteps(last))
    /\ \A n \in 1..Len(Writes(last)) :
          /\ Writes(last)[n].id = WritingSteps(last)[n].target
          /\ Writes(last)[n].op = (IF WritingSteps(last)[n].class = "added"
                                   THEN "create" ELSE "update")
    /\ \A m \in 1..Len(Deletes(last)) : \A n \in 1..Len(Deletes(last)) :
          m < n => PositionOf(last, Deletes(last)[m].id) < PositionOf(last, Deletes(last)[n].id)

\* A run issued creates or updates for two source events and deleted two targets
W_C17_TwoWritesTwoDeletes ==
    /\ last.ran
    /\ Len(Writes(last)) = 2 /\ Len(Deletes(last)) = 2
    /\ Writes(last)[1].id # Writes(last)[2].id


\* C18: rate limiting. Between any two consecutive mutating calendar calls of
\* a run (create, update, delete) a 300 ms sleep occurs: no two mutating calls
\* are issued back to back.
C18_DelayBetweenMutations ==
    \A k \in 1..(Len(last.calls) - 1) :
        last.calls[k].op # "sleep" => last.calls[k + 1].op = "sleep"


\* C20: when the family calendar is not found, syncHockeyCalendar fails with
\* 'Family calendar not found' before it fetches the feed and before any
\* create, update or delete, and lastSyncTime is not updated.
C20_CalendarNotFound ==
    (last.ran /\ ~last.calendarFound) =>
        /\ last.outcome = "threw"
        /\ last.error = "Family calendar not found"
        /\ ~last.fetched
        /\ last.calls = <<>>
        /\ calendar = last.before
        /\ lastSyncTime # runs

\* The second run does not find the calendar, which holds managed events the
\* feed no longer lists; the first run had set lastSyncTime
W_C20_NotFoundAfterSync ==
    /\ runs = 2 /\ last.ran /\ ~last.calendarFound
    /\ lastSyncTime = 1
    /\ \E e \in calendar : IsManaged(e) /\ InWindow(e, Now)
    /\ parseICSData(version, feed) = <<>>


\* Source event hockeyEvent is in the calendar twice: two events with
\* different handles that are both what createEvent stores for it
CreatedTwice(hockeyEvent) ==
    \E e1 \in calendar : \E e2 \in calendar :
        /\ e1.id # e2.id
        /\ e1 = createEvent(e1.id, hockeyEvent)
        /\ e2 = createEvent(e2.id, hockeyEvent)

\* C19: overlapping runs are unsafe. Nothing keeps a second run from starting
\* while another is between its read and its end, and when both runs have read
\* the calendar before either has written, the run that ends second creates
\* every source event the first one created once more.
C19_OverlappingRunsUnsafe ==
    /\ \A r \in Runners : \A s \in Runners :
          (inflight[r].phase = "read" /\ inflight[s].phase = "idle")
              => ENABLED BeginRun(s, TRUE)
    /\ \A r \in Runners :
          (/\ inflight[r].phase = "done" /\ inflight[r].overlapped
           /\ \A s \in Runners : inflight[s].phase = "done" /\ inflight[s].fetchOk)
              => \A i \in 1..Len(inflight[r].source) : CreatedTwice(inflight[r].source[i])

\* Both runs read an empty set of managed events, and after both have ended a
\* source event is in the calendar twice
W_C19_CreatedTwice ==
    /\ \A r \in Runners : inflight[r].phase = "done" /\ inflight[r].existing = <<>>
    /\ \E r \in Runners : inflight[r].overlapped
    /\ last.source # <<>>
    /\ CreatedTwice(last.source[1])
    /\ last.results.added = Len(last.source)


\* C21: the trigger installed by setupTriggers fires syncHockeyCalendar every
\* 6 hours: each of its firings comes 6 hours after it was installed or last
\* fired.
C21_TriggerEverySixHours ==
    \A k \in 1..Len(fired) :
        (fired[k].by = "setupTriggers" /\ fired[k].handler = "syncHockeyCalendar")
            => fired[k].gap = 6


\* The steps of a run that were matched by content key only
MigrationSteps(run) == {i \in 1..Len(run.steps) : run.steps[i].isMigration}

\* The run that would follow on the present calendar and feed
FollowingRun == SyncBody(version, calendar, feed, TRUE, 0).run

\* The source event of step i was migrated: an update was issued on its target
\* and it was counted as migrated
CountedMigrated(run, i) ==
    /\ run.steps[i].class = "migrated"
    /\ run.steps[i].target \in Updated(run)

\* The identity read back from what updateEvent stores on the target of step i
\* is the identity of the source event
StoresIdentity(run, i) ==
    extractUIDFromDescription(
        updateEvent(run.steps[i].seen[1], run.source[i]).description) = run.source[i].uid

\* C22: a source event matched by content key only is always updated on the
\* matched target and counted as migrated, not as updated; after the update the
\* target stores the source event's identity, so the next run with the same
\* source matches it by identity, counts it unchanged and migrates nothing.
C22_MigrationThenUnchanged ==
    (last.ran /\ last.fetchOk /\ last.source = parseICSData(version, feed)) =>
        /\ \A i \in MigrationSteps(last) : CountedMigrated(last, i) /\ StoresIdentity(last, i)
        /\ last.results.migrated = Cardinality(MigrationSteps(last))
        /\ last.results.updated =
              Cardinality({i \in 1..Len(last.steps) : last.steps[i].class = "updated"})
        /\ MigrationSteps(last) # {} =>
              /\ FollowingRun.results.migrated = 0
              /\ \A i \in MigrationSteps(last) :
                    /\ FollowingRun.steps[i].class = "unchanged"
                    /\ extractUIDFromDescription(FollowingRun.steps[i].seen[1].description)
                           = last.source[i].uid


\* The target seen at step i with every field but the description as
\* updateEvent would write it: needsUpdate on it reports the description alone
DescriptionProbe(i) ==
    [updateEvent(last.steps[i].seen[1], last.source[i])
        EXCEPT !.description = last.steps[i].seen[1].description]

\* desc is content followed by a marker block: content, an empty line, and a
\* last line that starts with 'Hockey-UID:'
IsContentThenMarker(desc, content) ==
    /\ StartsWith(desc, content \o S_NlNlUidMarker)
    /\ NoLineTerminator(SubSeq(desc, Len(content) + Len(S_NlNlUidMarker) + 1, Len(desc)))

\* desc is the marker line and nothing else
IsMarkerOnly(desc) == StartsWith(desc, S_UidMarker) /\ NoLineTerminator(desc)

\* The description of the target of step i is the source description with the
\* marker added, in one of the two forms
SameContent(i) ==
    LET desc == last.steps[i].seen[1].description
        content == last.source[i].description
    IN \/ IsContentThenMarker(desc, content)
       \/ content = <<>> /\ IsMarkerOnly(desc)

\* C23: needsUpdate compares descriptions with the identity marker line
\* stripped. A target description that is the source description followed by a
\* trailing marker block, or only the marker line while the source description
\* is empty, is not a description change; any other description is.
C23_DescriptionComparedWithoutMarker ==
    last.ran =>
        \A i \in Compared :
            needsUpdate(version, DescriptionProbe(i), last.source[i]) = ~SameContent(i)


\* The steps of the last run that issued a create or an update for identity uid
WritesFor(uid) ==
    {i \in 1..Len(last.steps) :
        /\ last.source[i].uid = uid
        /\ last.steps[i].class \in {"added", "updated", "migrated"}}

\* Source event i of the last run shares its identity with a later one
Superseded(i) == \E j \in (i + 1)..Len(last.source) : last.source[j].uid = last.source[i].uid

\* C24: when two source events of one run share the same derived identity, the
\* later one wins: at most one create or update is issued for that identity,
\* and the earlier event produces no target event of its own.
C24_LastOneWins ==
    (last.ran /\ last.fetchOk) =>
        \A i \in 1..Len(last.steps) :
            Superseded(i) =>
                /\ last.steps[i].class # "added"
                /\ Cardinality(WritesFor(last.source[i].uid)) <= 1


\* A two-phase run. Phase one classifies every source event and every target
\* against the calendar cal0 as it was read, and changes nothing.
ClassifySource(v, cal0, existing, hockeyEvent) ==
    LET found == LookupTarget(v, cal0, existing, hockeyEvent)
    IN IF found.id = 0 THEN [class |-> "added", target |-> 0]
       ELSE IF found.isMigration THEN [class |-> "migrated", target |-> found.id]
       ELSE IF needsUpdate(v, Ev(cal0, found.id), hockeyEvent)
            THEN [class |-> "updated", target |-> found.id]
            ELSE [class |-> "unchanged", target |-> found.id]

\* Phase two, source events: the requests are applied in source order
RECURSIVE ApplySource(_, _, _, _, _, _)
ApplySource(v, cal0, existing, hockeyEvents, i, acc) ==
    IF i > Len(hockeyEvents) THEN acc
    ELSE LET c == ClassifySource(v, cal0, existing, hockeyEvents[i])
             id == IF c.class = "added" THEN FreshId(acc.cal) ELSE c.target
             next ==
                 [cal |-> IF c.class = "added"
                          THEN acc.cal \cup {createEvent(id, hockeyEvents[i])}
                          ELSE IF c.class = "unchanged" THEN acc.cal
                          ELSE (acc.cal \ {Ev(acc.cal, id)})
                                   \cup {updateEvent(Ev(acc.cal, id), hockeyEvents[i])},
                  results |-> [acc.results EXCEPT ![c.class] = acc.results[c.class] + 1],
                  calls |-> IF c.class = "unchanged" THEN acc.calls
                            ELSE Append(acc.calls,
                                   Call(IF c.class = "added" THEN "create" ELSE "update", id))]
         IN ApplySource(v, cal0, existing, hockeyEvents, i + 1, next)

\* Phase two, targets: the deletions are applied in target order
RECURSIVE ApplyRemove(_, _, _, _, _, _)
ApplyRemove(v, cal0, hockeyEvents, existing, j, acc) ==
    IF j > Len(existing) THEN acc
    ELSE LET id == existing[j]
             next == IF ShouldRemove(v, hockeyEvents, Ev(cal0, id))
                     THEN [cal |-> acc.cal \ {Ev(acc.cal, id)},
                           results |-> [acc.results EXCEPT !.removed = acc.results.removed + 1],
                           calls |-> Append(acc.calls, Call("delete", id))]
                     ELSE acc
         IN ApplyRemove(v, cal0, hockeyEvents, existing, j + 1, next)

processEventsDeferred(v, cal0, hockeyEvents, existing) ==
    ApplyRemove(v, cal0, hockeyEvents, existing, 1,
        ApplySource(v, cal0, existing, hockeyEvents, 1,
            [cal |-> cal0, results |-> NoResults, calls |-> <<>>]))

\* The two-phase run on what the last run read
DeferredRun == processEventsDeferred(version, last.before, last.source, last.existing)

\* C25: deferred side effects. The single pass of the program, which mutates
\* targets while it classifies, is equivalent to a two-phase run that classifies
\* everything against the calendar as read and mutates afterwards: same counts,
\* same sequence of create, update and delete requests, same final calendar.
C25_SinglePassEqualsTwoPhase ==
    (last.ran /\ last.fetchOk) =>
        /\ last.results = DeferredRun.results
        /\ Mutations(last) = DeferredRun.calls
        /\ calendar = DeferredRun.cal


\* The calls of needsUpdate made on the pair so far
Queries == {k \in 1..Len(probe.log) : probe.log[k].op = "needsUpdate"}

C27_UpdateConverges ==
    \A k \in Queries :
        (k > 1 /\ probe.log[k - 1].op \in {"createEvent", "updateEvent"})
            => ~probe.log[k].answer


\* The calls of createEvent and updateEvent made on the pair so far
Writings == {k \in 1..Len(probe.log) : probe.log[k].op \in {"createEvent", "updateEvent"}}

\* C28: content keys of source and target are directly comparable. For every
\* source event, with a title that may itself contain EVENT_PREFIX and with or
\* without location, the content key of the target that createEvent or
\* updateEvent writes for it equals the content key of the source event.
C28_ContentKeysComparable ==
    version = "stable" =>
        \A k \in Writings :
            TargetContentKey(probe.log[k].after[1]) = SourceContentKey(probe.log[k].sourceBefore[1])

\* updateEvent has written a source event whose title starts with EVENT_PREFIX
\* onto a target with another title
W_C28_PrefixedTitleWritten ==
    /\ version = "stable"
    /\ \E k \in Writings :
          /\ probe.log[k].op = "updateEvent"
          /\ StartsWith(probe.source[1].title, EVENT_PREFIX)
          /\ probe.log[k].before[1].title # probe.log[k].after[1].title


\* The end time the claim gives a source event: its endTime when present, two
\* hours after its start otherwise
EndOrTwoHours(s) == IF s.endTime # NoTime THEN s.endTime ELSE PlusMs(s.startTime, TwoHoursMs)

\* The source description is one for which needsUpdate, right after a write,
\* reports no description change
PlainDescription(s) == s.description # <<>> /\ ~Includes(s.description, S_UidMarker)

\* C30: default end time. createEvent and updateEvent write the source event's
\* endTime when present and startTime + 2 hours when absent, needsUpdate expects
\* the same end, and a target written from a source event without endTime is
\* not reported as changed because of its end.
C30_DefaultEndTime ==
    /\ \A k \in Writings :
          /\ probe.log[k].after[1].endTime = EndOrTwoHours(probe.source[1])
          /\ ~AbsDiffExceeds(probe.log[k].after[1].endTime, ExpectedEndTime(probe.source[1]),
                             Tolerance(version))
    /\ \A k \in Queries :
          ( /\ k > 1 /\ (k - 1) \in Writings
            /\ probe.source[1].endTime = NoTime
            /\ PlainDescription(probe.source[1]) )
          => ~probe.log[k].answer

\* A source event without endTime was written to a target, and needsUpdate on
\* the pair answered FALSE
W_C30_NoEndTimeWritten ==
    \E k \in Queries :
        /\ k > 1 /\ (k - 1) \in Writings
        /\ probe.source[1].endTime = NoTime
        /\ PlainDescription(probe.source[1])
        /\ probe.log[k].before[1].endTime = PlusMs(probe.source[1].startTime, TwoHoursMs)
        /\ ~probe.log[k].answer

\* h * 31 + c, truncated to 32 bits
TimesThirtyOnePlus(h, c) ==
    LET x == h[2] * 31 + c
    IN <<(h[1] * 31 + (x \div 65536)) % 65536, x % 65536>>

RECURSIVE RollingHash(_, _, _)
RollingHash(h, s, i) ==
    IF i > Len(s) THEN h ELSE RollingHash(TimesThirtyOnePlus(h, s[i]), s, i + 1)

\* d is a natural number in decimal: digits only, no sign, no leading zero
IsUnsignedDecimal(d) ==
    /\ Len(d) >= 1
    /\ \A i \in 1..Len(d) : d[i] \in 48..57
    /\ Len(d) > 1 => d[1] # 48

\* The decimal number d is at most 2^31 = 2147483648
AtMostTwoPow31(d) ==
    \/ Len(d) < 10
    \/ /\ Len(d) = 10
       /\ \/ d = S_TwoPow31
          \/ \E i \in 1..10 : /\ d[i] < S_TwoPow31[i]
                               /\ \A j \in 1..(i - 1) : d[j] = S_TwoPow31[j]

\* The decimal number d read back as a 32-bit word
RECURSIVE ParseWord(_, _, _)
ParseWord(w, d, i) ==
    IF i > Len(d) THEN w
    ELSE LET x == w[2] * 10 + (d[i] - 48)
         IN ParseWord(<<(w[1] * 10 + (x \div 65536)) % 65536, x % 65536>>, d, i + 1)

\* The word of -h
Negated(h) ==
    <<(65536 - h[1] - (IF h[2] = 0 THEN 0 ELSE 1)) % 65536, (65536 - h[2]) % 65536>>

IsNegative(h) == h[1] >= 32768

\* C29: hash numerics. Every round of the loop leaves h * 31 + charCode
\* truncated to a 32-bit word, whatever word the round started from; the digits
\* after the prefix are the absolute value of the signed word, an unsigned
\* decimal number in 0..2^31; and createStableUID returns 'benchapp-stable-'
\* followed by those digits of the rolling hash of
\* trim(title) + '|' + epoch-ms(startTime) + '|' + trim(location).
C29_HashNumerics ==
    /\ hashing.hash = RollingHash(hashing.start, hashing.chars, 1)
    /\ \A c \in SampleChars : HashStep(hashing.hash, c) = TimesThirtyOnePlus(hashing.hash, c)
    /\ LET d == AbsHashString(hashing.hash)
       IN /\ IsUnsignedDecimal(d)
          /\ AtMostTwoPow31(d)
          /\ ParseWord(<<0, 0>>, d, 1) =
                 (IF IsNegative(hashing.hash) THEN Negated(hashing.hash) ELSE hashing.hash)
    /\ hashing.uid # <<>> =>
          LET e == hashing.event[1]
              text == Trim(e.title) \o S_Bar \o TimeString(e.startTime) \o S_Bar \o Trim(e.location)
              digits == SubSeq(hashing.uid, Len(S_StablePrefix) + 1, Len(hashing.uid))
          IN /\ hashing.uid = S_StablePrefix \o AbsHashString(RollingHash(<<0, 0>>, text, 1))
             /\ IsUnsignedDecimal(digits)
             /\ AtMostTwoPow31(digits)

\* The loop has run from the smallest signed word and left it, whose absolute
\* value is 2^31, and createStableUID has returned an identity
W_C29_SmallestWordHashed ==
    /\ hashing.chars # <<>>
    /\ hashing.start = <<32768, 0>>
    /\ hashing.hash = <<32768, 0>>
    /\ AbsHashString(hashing.hash) = S_TwoPow31
    /\ hashing.uid # <<>>

\* Both replicas have run
BothRan == \A r \in Replicas : twin.out[r] # <<>>

CallsOf(run, op) == {k \in 1..Len(run.calls) : run.calls[k].op = op}

\* C32: count accounting. When a run returns, added + updated + migrated +
\* unchanged is the number of source events handed to the reconciler, removed
\* is at most the number of target events handed to it, there are as many
\* create calls as added, as many update calls as updated + migrated, as many
\* delete calls as removed, and no target is deleted twice.
C32_CountAccounting ==
    last.outcome = "returned" =>
        /\ last.results.added + last.results.updated + last.results.migrated
               + last.results.unchanged = Len(last.source)
        /\ last.results.removed <= Len(last.existing)
        /\ Cardinality(CallsOf(last, "create")) = last.results.added
        /\ Cardinality(CallsOf(last, "update")) = last.results.updated + last.results.migrated
        /\ Cardinality(CallsOf(last, "delete")) = last.results.removed
        /\ \A j, k \in CallsOf(last, "delete") : last.calls[j].id = last.calls[k].id => j = k

\* A run returned that was handed two source events with one identity, wrote
\* for at least one of them and deleted a target
W_C32_EveryCounterUsed ==
    /\ last.outcome = "returned"
    /\ Len(last.source) = 2
    /\ last.source[1].uid = last.source[2].uid
    /\ last.results.added + last.results.updated + last.results.migrated >= 1
    /\ last.results.removed >= 1

\* The rounds of the source loop of the last run that looked up target id
MatchersOf(id) ==
    {i \in 1..Len(last.steps) : last.steps[i].class # "added" /\ last.steps[i].target = id}

\* Target id was found by its stored identity, and needsUpdate is false for it
\* against every source event whose lookup found it
MatchedAndCurrent(id) ==
    /\ \E i \in MatchersOf(id) : ~last.steps[i].isMigration
    /\ \A i \in MatchersOf(id) : ~needsUpdate(version, Ev(last.before, id), last.source[i])

\* C33: no needless rewrite. A target that the last run matched by identity
\* and for which needsUpdate is false against every source event that matched
\* it got no update and no delete call, and is in the calendar as it was.
C33_NoNeedlessRewrite ==
    last.outcome = "returned" =>
        \A j \in 1..Len(last.existing) :
            MatchedAndCurrent(last.existing[j]) =>
                /\ \A k \in 1..Len(last.calls) : last.calls[k].id # last.existing[j]
                /\ Ev(last.before, last.existing[j]) \in calendar

\* The create, update and delete calls of run
MutatingCalls(run) == {k \in 1..Len(run.calls) : run.calls[k].op \in {"create", "update", "delete"}}

\* C34: the change report. A run that reports 'No changes needed' made no
\* create, update or delete call, and a run that made one reports 'Changes
\* detected'.
C34_ReportMatchesMutations ==
    last.outcome = "returned" =>
        /\ last.report = "No changes needed" => MutatingCalls(last) = {}
        /\ MutatingCalls(last) # {} => last.report = "Changes detected"

\* The run that just ended went through both loops: one round per source
\* event, and no target is left that the removal loop deletes
PassCompleted ==
    /\ Len(last'.steps) = Len(last'.source)
    /\ \A j \in 1..Len(last'.existing) :
          \A e \in calendar' :
              e.id = last'.existing[j] => ~ShouldRemove(version, last'.source, e)

\* C35: lastSyncTime. A run that throws (calendar not found, or a calendar
\* call failing midway) leaves lastSyncTime as it was; a run that returns
\* writes it; and it is written only by a run that returned after a round for
\* every source event and a removal test of every target.
C35_LastSyncTimeOnlyOnSuccess ==
    [][ /\ (runs' # runs /\ last'.outcome = "threw") => lastSyncTime' = lastSyncTime
        /\ (runs' # runs /\ last'.outcome = "returned") => lastSyncTime' = runs'
        /\ lastSyncTime' # lastSyncTime =>
               (runs' # runs /\ last'.outcome = "returned" /\ PassCompleted) ]_vars

\* A second run threw at its second calendar call, after a first run that
\* returned: lastSyncTime is still the first run's
W_C35_ThrewAfterFirstCall ==
    /\ runs = 2
    /\ lastSyncTime = 1
    /\ last.outcome = "threw"
    /\ last.calendarFound
    /\ Len(last.calls) >= 1

SyncTriggers(ts) == {x \in ts : x.handler = "syncHockeyCalendar"}

\* The step was a call of setupTriggers whose trigger creation succeeded
SetupCreated ==
    /\ Len(fired') = Len(fired) + 1
    /\ fired'[Len(fired')].by = "setup"
    /\ fired'[Len(fired')].created

\* C36: setupTriggers is idempotent on the trigger set. After a call whose
\* trigger creation succeeded the project has exactly one trigger of
\* syncHockeyCalendar, however many it had before and however often
\* setupTriggers has run, and the triggers of other functions are as they were.
C36_SetupTriggersIdempotent ==
    [][ SetupCreated =>
            /\ Cardinality(SyncTriggers(triggers')) = 1
            /\ triggers' \ SyncTriggers(triggers') = triggers \ SyncTriggers(triggers) ]_vars

\* setupTriggers has run twice on a project that had two sync triggers and a
\* trigger of another function: the second call created trigger 5
W_C36_SetupTwiceOverTwo ==
    /\ Len(SelectSeq(fired, LAMBDA f : f.by = "setup" /\ f.created)) = 2
    /\ \E x \in triggers : x.handler = "syncHockeyCalendar" /\ x.id = 5
    /\ \E x \in triggers : x.handler = "getSyncStatus"
    /\ Cardinality(SyncTriggers(triggers)) = 1

\* The managed events of calendar cal that lie in the window
ManagedInWindow(cal) == {e \in cal : InWindow(e, Now) /\ IsManaged(e)}

SameGame(a, b) == a.title = b.title /\ a.startTime = b.startTime

\* The events run was handed, and of each group the first in list order
Handed(run) == {Ev(run.before, run.existing[i]) : i \in 1..Len(run.existing)}

FirstOfGroup(run) ==
    {Ev(run.before, run.existing[i]) : i \in {k \in 1..Len(run.existing) :
        \A j \in 1..(k - 1) : ~SameGame(Ev(run.before, run.existing[j]),
                                         Ev(run.before, run.existing[k]))}}

\* C37: cleanupDuplicateEvents. After a call that returned, no two managed
\* events of the window share title and start time, of every group of managed
\* events sharing them exactly the first in list order is left, the number
\* deleted is the number of events minus the number of groups, and a second
\* call right after it deletes nothing.
C37_CleanupKeepsFirstOfGroup ==
    \A n \in 1..Len(cleanup) :
        cleanup[n].outcome = "returned" =>
            /\ \A a, b \in ManagedInWindow(cleanup[n].after) : SameGame(a, b) => a = b
            /\ \A e \in Handed(cleanup[n]) :
                  e \in cleanup[n].after <=> e \in FirstOfGroup(cleanup[n])
            /\ cleanup[n].duplicatesRemoved =
                   Len(cleanup[n].existing) - Cardinality(FirstOfGroup(cleanup[n]))
            /\ (n < Len(cleanup) /\ cleanup[n + 1].outcome = "returned") =>
                   /\ cleanup[n + 1].deleted = <<>>
                   /\ cleanup[n + 1].after = cleanup[n].after

\* Two calls returned; the first was handed two groups of duplicates that
\* interleave in the list and the same title at another start time, and
\* deleted three events
W_C37_TwoGroupsCleaned ==
    /\ Len(cleanup) = 2
    /\ cleanup[1].outcome = "returned" /\ cleanup[2].outcome = "returned"
    /\ cleanup[1].existing = <<1, 2, 3, 4, 5, 6>>
    /\ cleanup[1].deleted = <<3, 4, 5>>
    /\ {e.id : e \in calendar} = {1, 2, 6, 7, 8, 9, 10}

====
